---- MODULE Spec2Model ----
(***************************************************************************)
(* drf_aggrid: the ag-grid adapter for Django REST Framework.              *)
(*                                                                         *)
(* The module models the filter backend (filter.py), the pagination class  *)
(* (pagination.py), the renderer (renderer.py) and the pagination mixins   *)
(* (mixins.py) as operators over explicit values, and three state machines *)
(* that drive them:                                                        *)
(*   Spec          a list request served by a view that is configured as   *)
(*                 examples/views.py configures ExampleModelAgGridViewSet: *)
(*                 filter_queryset, paginate_queryset,                     *)
(*                 get_paginated_response, render;                         *)
(*   SpecDispatch  AgGridAutoPaginationMixin.initial and finalize_response *)
(*                 called on one view, request after request;              *)
(*   SpecRender    AgGridRenderer.render applied to arbitrary payloads.    *)
(*                                                                         *)
(* Python strings are sequences of one-character strings, so that lower(), *)
(* replace() and int() are computed and not assumed.  JSON values and      *)
(* Python objects are records that carry a tag.                            *)
(***************************************************************************)
EXTENDS Integers, Sequences, FiniteSets, TLC

VARIABLES
    db,          \* the rows view.get_queryset() returns, in table order
    cfg,         \* the configuration of the view and of its paginator
    pc,          \* the position of the request in the view's list() handler
    request,     \* the request being served
    queryset,    \* the queryset handed from one step to the next
    view,        \* the attributes the library keeps on the view
    paginator,   \* the attributes of the AgGridPagination instance
    page,        \* what paginate_queryset returned
    response,    \* the data of the Response the handler returned
    rendered,    \* the payload AgGridRenderer handed to the JSON encoder
    built        \* what a helper of the filter backend, called by itself, returned

vars ==
    <<db, cfg, pc, request, queryset, view, paginator, page, response, rendered, built>>

----------------------------------------------------------------------------
(* Bounds of the model.                                                    *)

\* the largest table view.get_queryset() returns
MaxRows == 3
\* startRow and endRow range over -1 .. MaxRows + RowSlack
RowSlack == 1
\* field names are up to MaxNameLen characters long
MaxNameLen == 4

----------------------------------------------------------------------------
(* Python strings.                                                          *)

S_aggrid == <<"a", "g", "g", "r", "i", "d">>
S_AgGrid == <<"A", "g", "G", "r", "i", "d">>
S_AGGRID == <<"A", "G", "G", "R", "I", "D">>
S_json == <<"j", "s", "o", "n">>
S_text == <<"t", "e", "x", "t">>
S_number == <<"n", "u", "m", "b", "e", "r">>
S_date == <<"d", "a", "t", "e">>
S_set == <<"s", "e", "t">>
S_boolean == <<"b", "o", "o", "l", "e", "a", "n">>
S_equals == <<"e", "q", "u", "a", "l", "s">>
S_notEqual == <<"n", "o", "t", "E", "q", "u", "a", "l">>
S_contains == <<"c", "o", "n", "t", "a", "i", "n", "s">>
S_notContains == <<"n", "o", "t", "C", "o", "n", "t", "a", "i", "n", "s">>
S_startsWith == <<"s", "t", "a", "r", "t", "s", "W", "i", "t", "h">>
S_endsWith == <<"e", "n", "d", "s", "W", "i", "t", "h">>
S_lessThan == <<"l", "e", "s", "s", "T", "h", "a", "n">>
S_lessThanOrEqual == S_lessThan \o <<"O", "r", "E", "q", "u", "a", "l">>
S_greaterThan == <<"g", "r", "e", "a", "t", "e", "r", "T", "h", "a", "n">>
S_greaterThanOrEqual == S_greaterThan \o <<"O", "r", "E", "q", "u", "a", "l">>
S_inRange == <<"i", "n", "R", "a", "n", "g", "e">>
S_asc == <<"a", "s", "c">>
S_desc == <<"d", "e", "s", "c">>

\* str.lower() on one character: the upper-case letters and their lower case
UpperCase == <<"A", "B", "C", "D", "E", "F", "G", "H", "I", "J", "K", "L", "M",
               "N", "O", "P", "Q", "R", "S", "T", "U", "V", "W", "X", "Y", "Z">>
LowerCase == <<"a", "b", "c", "d", "e", "f", "g", "h", "i", "j", "k", "l", "m",
               "n", "o", "p", "q", "r", "s", "t", "u", "v", "w", "x", "y", "z">>

LowerChar(c) ==
    IF \E i \in 1..Len(UpperCase) : UpperCase[i] = c
    THEN LowerCase[CHOOSE i \in 1..Len(UpperCase) : UpperCase[i] = c]
    ELSE c

\* str.lower()
Lower(s) == [i \in 1..Len(s) |-> LowerChar(s[i])]

\* the order of characters: digits, then upper case, then lower case (ASCII)
Digits == <<"0", "1", "2", "3", "4", "5", "6", "7", "8", "9">>

IsDigit(c) == \E i \in 1..Len(Digits) : Digits[i] = c

DigitValue(c) == (CHOOSE i \in 1..Len(Digits) : Digits[i] = c) - 1

CharRank(c) ==
    IF IsDigit(c) THEN 48 + DigitValue(c)
    ELSE IF \E i \in 1..26 : UpperCase[i] = c
         THEN 64 + (CHOOSE i \in 1..26 : UpperCase[i] = c)
    ELSE IF \E i \in 1..26 : LowerCase[i] = c
         THEN 96 + (CHOOSE i \in 1..26 : LowerCase[i] = c)
    ELSE IF c = "_" THEN 95
    ELSE IF c = "." THEN 46
    ELSE IF c = "-" THEN 45
    ELSE IF c = "+" THEN 43
    ELSE IF c = " " THEN 32
    ELSE 127

\* s < t for Python strings
RECURSIVE StrLess(_, _)
StrLess(s, t) ==
    IF t = <<>> THEN FALSE
    ELSE IF s = <<>> THEN TRUE
    ELSE IF s[1] = t[1] THEN StrLess(Tail(s), Tail(t))
    ELSE CharRank(s[1]) < CharRank(t[1])

\* t.startswith(s), t.endswith(s), s in t
StartsWith(t, s) == Len(s) <= Len(t) /\ SubSeq(t, 1, Len(s)) = s

EndsWith(t, s) == Len(s) <= Len(t) /\ SubSeq(t, Len(t) - Len(s) + 1, Len(t)) = s

Contains(t, s) == \E i \in 0..(Len(t) - Len(s)) : SubSeq(t, i + 1, i + Len(s)) = s

----------------------------------------------------------------------------
(* Python and JSON values: None, str, int, bool, list; "absent" is a key   *)
(* a dict does not have.                                                   *)

Absent == [k |-> "absent", s |-> <<>>, n |-> 0]
None == [k |-> "null", s |-> <<>>, n |-> 0]
Str(s) == [k |-> "str", s |-> s, n |-> 0]
Num(n) == [k |-> "num", s |-> <<>>, n |-> n]
Bool(b) == [k |-> "bool", s |-> <<>>, n |-> IF b THEN 1 ELSE 0]
List(l) == [k |-> "list", s |-> l, n |-> 0]

\* dict.get(key): None for a key the dict does not have
Get(v) == IF v.k = "absent" THEN None ELSE v

\* dict.get(key, default)
GetOr(v, default) == IF v.k = "absent" THEN default ELSE v

\* bool(v)
Truthy(v) ==
    CASE v.k = "absent" -> FALSE
      [] v.k = "null" -> FALSE
      [] v.k = "str" -> v.s # <<>>
      [] v.k = "num" -> v.n # 0
      [] v.k = "bool" -> v.n = 1
      [] v.k = "list" -> v.s # <<>>

\* v == "literal"
IsStr(v, s) == v.k = "str" /\ v.s = s

----------------------------------------------------------------------------
(* Query parameters.  A plain parameter is absent or a string; the filter  *)
(* and sort parameters are strings that json.loads either rejects or turns *)
(* into a value.                                                            *)

NoParam == [present |-> FALSE, s |-> <<>>]
Param(s) == [present |-> TRUE, s |-> s]

JNull == [t |-> "null", items |-> <<>>]
JObj(items) == [t |-> "obj", items |-> items]
JList(items) == [t |-> "list", items |-> items]

NoJson == [present |-> FALSE, text |-> "empty", val |-> JNull]
EmptyJson == [present |-> TRUE, text |-> "empty", val |-> JNull]
InvalidJson == [present |-> TRUE, text |-> "invalid", val |-> JNull]
Json(val) == [present |-> TRUE, text |-> "json", val |-> val]

\* bool(json value): None, {} and [] are false
JTruthy(j) == j.t # "null" /\ j.items # <<>>

\* str.strip() of the blanks int() ignores
RECURSIVE LStrip(_)
LStrip(s) == IF s # <<>> /\ s[1] = " " THEN LStrip(Tail(s)) ELSE s

RECURSIVE RStrip(_)
RStrip(s) ==
    IF s # <<>> /\ s[Len(s)] = " " THEN RStrip(SubSeq(s, 1, Len(s) - 1)) ELSE s

Unsigned(s) == IF s # <<>> /\ s[1] \in {"+", "-"} THEN Tail(s) ELSE s

\* the digits of an int literal: digits, single underscores between them
IsIntBody(b) ==
    /\ b # <<>>
    /\ IsDigit(b[1])
    /\ IsDigit(b[Len(b)])
    /\ \A i \in 1..Len(b) : IsDigit(b[i]) \/ b[i] = "_"
    /\ \A i \in 1..(Len(b) - 1) : ~(b[i] = "_" /\ b[i + 1] = "_")

RECURSIVE DigitsValue(_, _)
DigitsValue(b, acc) ==
    IF b = <<>> THEN acc
    ELSE IF b[1] = "_" THEN DigitsValue(Tail(b), acc)
    ELSE DigitsValue(Tail(b), 10 * acc + DigitValue(b[1]))

\* int(s) raises ValueError
IntRaises(s) == ~IsIntBody(Unsigned(RStrip(LStrip(s))))

\* int(s)
IntOf(s) ==
    LET t == RStrip(LStrip(s))
        m == DigitsValue(Unsigned(t), 0)
    IN  IF t[1] = "-" THEN 0 - m ELSE m

----------------------------------------------------------------------------
(* filter.py: the filter backend's pure helpers.                           *)

\* is_aggrid_request without lower(): format is compared as it is sent
is_aggrid_request_exact(req) ==
    \/ req.format.present /\ req.format.s = S_aggrid
    \/ req.filter.present
    \/ req.sort.present
    \/ req.startRow.present
    \/ req.endRow.present

\* AgGridFilterBackend.is_aggrid_request
is_aggrid_request(req) ==
    \/ req.format.present /\ req.format.s # <<>> /\ Lower(req.format.s) = S_aggrid
    \/ req.filter.present
    \/ req.sort.present
    \/ req.startRow.present
    \/ req.endRow.present

\* AgGridFilterBackend.get_filter_model: None for no parameter, the empty
\* string and a JSONDecodeError
get_filter_model(req) ==
    IF ~req.filter.present \/ req.filter.text = "empty" THEN JNull
    ELSE IF req.filter.text = "invalid" THEN JNull
    ELSE req.filter.val

\* AgGridFilterBackend.get_sort_model
get_sort_model(req) ==
    IF ~req.sort.present \/ req.sort.text = "empty" THEN JNull
    ELSE IF req.sort.text = "invalid" THEN JNull
    ELSE req.sort.val

\* str.replace(".", "__", 1): the first dot only
convert_field_name_first_dot(field_name) ==
    LET dots == {i \in 1..Len(field_name) : field_name[i] = "."}
        first == CHOOSE i \in dots : \A j \in dots : i <= j
    IN  IF dots = {} THEN field_name
        ELSE SubSeq(field_name, 1, first - 1) \o <<"_", "_">>
             \o SubSeq(field_name, first + 1, Len(field_name))

\* str.replace(".", "__")
RECURSIVE convert_field_name(_)
convert_field_name(field_name) ==
    IF field_name = <<>> THEN <<>>
    ELSE IF field_name[1] = "." THEN <<"_", "_">> \o convert_field_name(Tail(field_name))
    ELSE <<field_name[1]>> \o convert_field_name(Tail(field_name))

(* A Q object is the conjunction of its literals, in order; Q() is the     *)
(* empty conjunction, and & appends (Q() is its identity).                 *)
EmptyQ == <<>>
Lit(field, lookup, value) ==
    <<[neg |-> FALSE, field |-> field, lookup |-> lookup, value |-> value]>>
NotLit(field, lookup, value) ==
    <<[neg |-> TRUE, field |-> field, lookup |-> lookup, value |-> value]>>

\* _build_text_filter with the case-sensitive contains
_build_text_filter_case_sensitive(field, filter_condition) ==
    LET filter_type == Get(filter_condition.type)
        filter_value == Get(filter_condition.filter)
    IN  IF ~Truthy(filter_value) THEN EmptyQ
        ELSE IF IsStr(filter_type, S_equals) THEN Lit(field, "exact", filter_value)
        ELSE IF IsStr(filter_type, S_notEqual) THEN NotLit(field, "exact", filter_value)
        ELSE IF IsStr(filter_type, S_contains) THEN Lit(field, "contains", filter_value)
        ELSE IF IsStr(filter_type, S_notContains)
             THEN NotLit(field, "contains", filter_value)
        ELSE IF IsStr(filter_type, S_startsWith)
             THEN Lit(field, "istartswith", filter_value)
        ELSE IF IsStr(filter_type, S_endsWith) THEN Lit(field, "iendswith", filter_value)
        ELSE EmptyQ

\* AgGridFilterBackend._build_text_filter
_build_text_filter(field, filter_condition) ==
    LET filter_type == Get(filter_condition.type)
        filter_value == Get(filter_condition.filter)
    IN  IF ~Truthy(filter_value) THEN EmptyQ
        ELSE IF IsStr(filter_type, S_equals) THEN Lit(field, "exact", filter_value)
        ELSE IF IsStr(filter_type, S_notEqual) THEN NotLit(field, "exact", filter_value)
        ELSE IF IsStr(filter_type, S_contains) THEN Lit(field, "icontains", filter_value)
        ELSE IF IsStr(filter_type, S_notContains)
             THEN NotLit(field, "icontains", filter_value)
        ELSE IF IsStr(filter_type, S_startsWith)
             THEN Lit(field, "istartswith", filter_value)
        ELSE IF IsStr(filter_type, S_endsWith) THEN Lit(field, "iendswith", filter_value)
        ELSE EmptyQ

\* _build_number_filter testing the value as the text builder does
_build_number_filter_truthy(field, filter_condition) ==
    LET filter_type == Get(filter_condition.type)
        filter_value == Get(filter_condition.filter)
        filter_to == Get(filter_condition.filterTo)
    IN  IF ~Truthy(filter_value) THEN EmptyQ
        ELSE IF IsStr(filter_type, S_equals) THEN Lit(field, "eq", filter_value)
        ELSE IF IsStr(filter_type, S_notEqual) THEN NotLit(field, "eq", filter_value)
        ELSE IF IsStr(filter_type, S_lessThan) THEN Lit(field, "lt", filter_value)
        ELSE IF IsStr(filter_type, S_lessThanOrEqual) THEN Lit(field, "lte", filter_value)
        ELSE IF IsStr(filter_type, S_greaterThan) THEN Lit(field, "gt", filter_value)
        ELSE IF IsStr(filter_type, S_greaterThanOrEqual)
             THEN Lit(field, "gte", filter_value)
        ELSE IF IsStr(filter_type, S_inRange) /\ filter_to # None
             THEN Lit(field, "gte", filter_value) \o Lit(field, "lte", filter_to)
        ELSE EmptyQ

\* AgGridFilterBackend._build_number_filter
_build_number_filter(field, filter_condition) ==
    LET filter_type == Get(filter_condition.type)
        filter_value == Get(filter_condition.filter)
        filter_to == Get(filter_condition.filterTo)
    IN  IF filter_value = None THEN EmptyQ
        ELSE IF IsStr(filter_type, S_equals) THEN Lit(field, "eq", filter_value)
        ELSE IF IsStr(filter_type, S_notEqual) THEN NotLit(field, "eq", filter_value)
        ELSE IF IsStr(filter_type, S_lessThan) THEN Lit(field, "lt", filter_value)
        ELSE IF IsStr(filter_type, S_lessThanOrEqual) THEN Lit(field, "lte", filter_value)
        ELSE IF IsStr(filter_type, S_greaterThan) THEN Lit(field, "gt", filter_value)
        ELSE IF IsStr(filter_type, S_greaterThanOrEqual)
             THEN Lit(field, "gte", filter_value)
        ELSE IF IsStr(filter_type, S_inRange) /\ filter_to # None
             THEN Lit(field, "gte", filter_value) \o Lit(field, "lte", filter_to)
        ELSE EmptyQ

\* AgGridFilterBackend._build_date_filter
_build_date_filter(field, filter_condition) ==
    LET filter_type == Get(filter_condition.type)
        filter_value == Get(filter_condition.dateFrom)
        filter_to == Get(filter_condition.dateTo)
    IN  IF ~Truthy(filter_value) THEN EmptyQ
        ELSE IF IsStr(filter_type, S_equals) THEN Lit(field, "date", filter_value)
        ELSE IF IsStr(filter_type, S_notEqual) THEN NotLit(field, "date", filter_value)
        ELSE IF IsStr(filter_type, S_lessThan) THEN Lit(field, "lt", filter_value)
        ELSE IF IsStr(filter_type, S_greaterThan) THEN Lit(field, "gt", filter_value)
        ELSE IF IsStr(filter_type, S_inRange) /\ Truthy(filter_to)
             THEN Lit(field, "gte", filter_value) \o Lit(field, "lte", filter_to)
        ELSE EmptyQ

\* _build_set_filter applying an empty list of values
_build_set_filter_empty_list(field, filter_condition) ==
    LET values == GetOr(filter_condition.values, List(<<>>))
    IN  IF values = None \/ filter_condition.values = Absent THEN EmptyQ
        ELSE Lit(field, "in", values)

\* AgGridFilterBackend._build_set_filter
_build_set_filter(field, filter_condition) ==
    LET values == GetOr(filter_condition.values, List(<<>>))
    IN  IF ~Truthy(values) THEN EmptyQ ELSE Lit(field, "in", values)

\* AgGridFilterBackend._build_boolean_filter
_build_boolean_filter(field, filter_condition) ==
    LET filter_value == Get(filter_condition.filter)
    IN  IF filter_value = None THEN EmptyQ ELSE Lit(field, "eq", filter_value)

(* A filter condition is a JSON object with some of these keys, or (t not  *)
(* "obj") a JSON value that is no object.                                  *)
Cond(filterType, type, filter, filterTo, dateFrom, dateTo, values) ==
    [t |-> "obj", filterType |-> filterType, type |-> type, filter |-> filter,
     filterTo |-> filterTo, dateFrom |-> dateFrom, dateTo |-> dateTo,
     values |-> values]
NotAnObject ==
    [t |-> "num", filterType |-> Absent, type |-> Absent, filter |-> Absent,
     filterTo |-> Absent, dateFrom |-> Absent, dateTo |-> Absent, values |-> Absent]

\* the Q object one field of the filter model contributes, <<>> when the
\* filterType is not a known one (nothing is appended to q_objects)
FieldQObjects(field, filter_condition) ==
    LET django_field == convert_field_name(field)
        filter_type == Get(filter_condition.filterType)
    IN  IF IsStr(filter_type, S_text)
        THEN <<_build_text_filter(django_field, filter_condition)>>
        ELSE IF IsStr(filter_type, S_number)
        THEN <<_build_number_filter(django_field, filter_condition)>>
        ELSE IF IsStr(filter_type, S_date)
        THEN <<_build_date_filter(django_field, filter_condition)>>
        ELSE IF IsStr(filter_type, S_set)
        THEN <<_build_set_filter(django_field, filter_condition)>>
        ELSE IF IsStr(filter_type, S_boolean)
        THEN <<_build_boolean_filter(django_field, filter_condition)>>
        ELSE <<>>

RECURSIVE QObjects(_)
QObjects(items) ==
    IF items = <<>> THEN <<>>
    ELSE FieldQObjects(items[1].field, items[1].cond) \o QObjects(Tail(items))

\* reduce(operator.and_, q_objects)
RECURSIVE AndAll(_)
AndAll(q_objects) ==
    IF q_objects = <<>> THEN EmptyQ ELSE q_objects[1] \o AndAll(Tail(q_objects))

\* build_filter_query returning Q() where it has collected no condition
build_filter_query_never_none(items) ==
    IF items = <<>> THEN [raised |-> FALSE, none |-> TRUE, q |-> EmptyQ]
    ELSE IF \E i \in 1..Len(items) : items[i].cond.t # "obj"
    THEN [raised |-> TRUE, none |-> TRUE, q |-> EmptyQ]
    ELSE [raised |-> FALSE, none |-> FALSE, q |-> AndAll(QObjects(items))]

\* AgGridFilterBackend.build_filter_query on the items of a dict: None, a Q
\* object, or the AttributeError of .get on a condition that is no dict
build_filter_query(items) ==
    IF items = <<>> THEN [raised |-> FALSE, none |-> TRUE, q |-> EmptyQ]
    ELSE IF \E i \in 1..Len(items) : items[i].cond.t # "obj"
    THEN [raised |-> TRUE, none |-> TRUE, q |-> EmptyQ]
    ELSE IF QObjects(items) = <<>> THEN [raised |-> FALSE, none |-> TRUE, q |-> EmptyQ]
    ELSE [raised |-> FALSE, none |-> FALSE, q |-> AndAll(QObjects(items))]

\* what a helper returned: op names the helper ("none": none was called),
\* raised an exception that took the place of a result, none a returned None
Built(op, raised, none, q, ordering) ==
    [op |-> op, raised |-> raised, none |-> none, q |-> q, ordering |-> ordering,
     calls |-> <<>>]
NoBuilt == Built("none", FALSE, FALSE, EmptyQ, <<>>)

(* A sort item is a JSON object with colId and sort, or no object.         *)
SortItem(colId, sort) == [t |-> "obj", colId |-> colId, sort |-> sort]

\* one sort item's ordering fields
ItemOrdering(sort_item) ==
    LET col_id == Get(sort_item.colId)
        sort_direction == Get(sort_item.sort)
    IN  IF ~Truthy(col_id) \/ ~Truthy(sort_direction) THEN <<>>
        ELSE IF IsStr(sort_direction, S_desc)
        THEN << <<"-">> \o convert_field_name(col_id.s) >>
        ELSE << convert_field_name(col_id.s) >>

\* sort_item.get or col_id.replace raises
ItemRaises(sort_item) ==
    \/ sort_item.t # "obj"
    \/ /\ Truthy(Get(sort_item.colId))
       /\ Truthy(Get(sort_item.sort))
       /\ sort_item.colId.k # "str"

RECURSIVE OrderingOf(_)
OrderingOf(items) ==
    IF items = <<>> THEN <<>> ELSE ItemOrdering(items[1]) \o OrderingOf(Tail(items))

\* build_ordering stopping at the first item it cannot use
build_ordering_until_skipped(sort_model) ==
    IF ~JTruthy(sort_model) THEN [raised |-> FALSE, ordering |-> <<>>]
    ELSE IF sort_model.t # "list" THEN [raised |-> TRUE, ordering |-> <<>>]
    ELSE IF \E i \in 1..Len(sort_model.items) : ItemRaises(sort_model.items[i])
    THEN [raised |-> TRUE, ordering |-> <<>>]
    ELSE LET items == sort_model.items
             skipped == {i \in 1..Len(items) : ItemOrdering(items[i]) = <<>>}
             first == IF skipped = {} THEN Len(items) + 1
                      ELSE CHOOSE i \in skipped : \A j \in skipped : i <= j
         IN  [raised |-> FALSE, ordering |-> OrderingOf(SubSeq(items, 1, first - 1))]

\* AgGridFilterBackend.build_ordering
build_ordering(sort_model) ==
    IF ~JTruthy(sort_model) THEN [raised |-> FALSE, ordering |-> <<>>]
    ELSE IF sort_model.t # "list" THEN [raised |-> TRUE, ordering |-> <<>>]
    ELSE IF \E i \in 1..Len(sort_model.items) : ItemRaises(sort_model.items[i])
    THEN [raised |-> TRUE, ordering |-> <<>>]
    ELSE [raised |-> FALSE, ordering |-> OrderingOf(sort_model.items)]

----------------------------------------------------------------------------
(* The query layer.  A queryset is the sequence of its rows; a row has a   *)
(* text column n, a number column a and, through a relation, the text      *)
(* column o__n.                                                            *)

F_n == <<"n">>
F_a == <<"a">>
F_o_n == <<"o", ".", "n">>
F_o__n == <<"o", "_", "_", "n">>
\* a field of the grid that is no column: the view filters it itself
F_custom == <<"c">>

Columns == {F_n, F_a, F_o__n}

FieldValue(row, f) ==
    CASE f = F_n -> Str(row.n)
      [] f = F_a -> Num(row.a)
      [] f = F_o__n -> Str(row.o_n)

\* x < y for two values of one type
Less(x, y) ==
    CASE x.k = "num" /\ y.k = "num" -> x.n < y.n
      [] x.k = "str" /\ y.k = "str" -> StrLess(x.s, y.s)
      [] OTHER -> FALSE

\* the lookup of one literal on one row; a value of another type than the
\* column matches no row
Lookup(x, lookup, v) ==
    CASE lookup \in {"exact", "eq", "date"} -> x = v
      [] lookup = "icontains" -> v.k = "str" /\ x.k = "str" /\ Contains(Lower(x.s), Lower(v.s))
      [] lookup = "istartswith" ->
            v.k = "str" /\ x.k = "str" /\ StartsWith(Lower(x.s), Lower(v.s))
      [] lookup = "iendswith" -> v.k = "str" /\ x.k = "str" /\ EndsWith(Lower(x.s), Lower(v.s))
      [] lookup = "lt" -> Less(x, v)
      [] lookup = "lte" -> Less(x, v) \/ x = v
      [] lookup = "gt" -> Less(v, x)
      [] lookup = "gte" -> Less(v, x) \/ x = v
      [] lookup = "in" -> v.k = "list" /\ \E i \in 1..Len(v.s) : v.s[i] = x

Matches(row, q) ==
    \A i \in 1..Len(q) :
        Lookup(FieldValue(row, q[i].field), q[i].lookup, q[i].value) # q[i].neg

RECURSIVE Select(_, _)
Select(rows, q) ==
    IF rows = <<>> THEN <<>>
    ELSE (IF Matches(rows[1], q) THEN <<rows[1]>> ELSE <<>>) \o Select(Tail(rows), q)

\* QuerySet.distinct(): a row is kept once
RECURSIVE Distinct(_)
Distinct(rows) ==
    IF rows = <<>> THEN <<>>
    ELSE LET init == SubSeq(rows, 1, Len(rows) - 1)
             last == rows[Len(rows)]
         IN  IF \E i \in 1..Len(init) : init[i] = last
             THEN Distinct(init)
             ELSE Distinct(init) \o <<last>>

\* a literal on a name that is no column raises FieldError
QRaises(q) == \E i \in 1..Len(q) : q[i].field \notin Columns

\* QuerySet.filter(q).distinct()
FilterDistinct(rows, q) == Distinct(Select(rows, q))

\* the column and the direction of one ordering field
OrderColumn(o) == IF o # <<>> /\ o[1] = "-" THEN Tail(o) ELSE o
OrderDesc(o) == o # <<>> /\ o[1] = "-"

OrderingRaises(ordering) ==
    \E i \in 1..Len(ordering) : OrderColumn(ordering[i]) \notin Columns

\* r1 sorts strictly before r2 under the ordering
RECURSIVE RowBefore(_, _, _)
RowBefore(r1, r2, ordering) ==
    IF ordering = <<>> THEN FALSE
    ELSE LET f == OrderColumn(ordering[1])
             x == FieldValue(r1, f)
             y == FieldValue(r2, f)
         IN  IF x = y THEN RowBefore(r1, r2, Tail(ordering))
             ELSE IF OrderDesc(ordering[1]) THEN Less(y, x) ELSE Less(x, y)

\* insert r behind the rows that do not sort after it (ties keep their order)
RECURSIVE InsertRow(_, _, _)
InsertRow(sorted, r, ordering) ==
    IF sorted = <<>> THEN <<r>>
    ELSE IF RowBefore(r, sorted[1], ordering) THEN <<r>> \o sorted
    ELSE <<sorted[1]>> \o InsertRow(Tail(sorted), r, ordering)

\* QuerySet.order_by(*ordering)
RECURSIVE order_by(_, _)
order_by(rows, ordering) ==
    IF rows = <<>> THEN <<>>
    ELSE InsertRow(order_by(SubSeq(rows, 1, Len(rows) - 1), ordering),
                   rows[Len(rows)], ordering)

\* sequence[start:stop] of a Python list
PySlice(rows, start, stop) ==
    LET n == Len(rows)
        lo == IF start < 0 THEN (IF n + start < 0 THEN 0 ELSE n + start)
              ELSE (IF start > n THEN n ELSE start)
        hi == IF stop < 0 THEN (IF n + stop < 0 THEN 0 ELSE n + stop)
              ELSE (IF stop > n THEN n ELSE stop)
    IN  SubSeq(rows, lo + 1, hi)

\* queryset[start:stop]: a QuerySet refuses a negative index, a list-like
\* collection slices as a Python list does
Slice(rows, start, stop, orm) ==
    IF orm /\ (start < 0 \/ stop < 0)
    THEN [raised |-> TRUE, rows |-> <<>>]
    ELSE [raised |-> FALSE, rows |-> PySlice(rows, start, stop)]

----------------------------------------------------------------------------
(* Attributes that an object may not have.                                 *)

Unset == [set |-> FALSE, v |-> 0]
Set(n) == [set |-> TRUE, v |-> n]

\* a view instance of a class configured with pagination_class: the library
\* has stored no count on it, and _original_pagination_class is the class
\* attribute None (mixins.py)
NewView(pagination_class) ==
    [_ag_grid_total_count |-> Unset, _ag_grid_filtered_count |-> Unset,
     pagination_class |-> pagination_class, _original_pagination_class |-> "None"]

----------------------------------------------------------------------------
(* filter.py: filter_queryset.                                             *)

\* ExampleModelWithCustomFiltersViewSet.filter_custom_field: it reads the
\* condition and returns the queryset, or queryset.filter() with no argument
filter_custom_field(field, filter_condition, rows) ==
    [raised |-> filter_condition.t # "obj", rows |-> rows]

\* filter_custom_field with the lookup its example leaves open filled in
\* (name__icontains=filter_value): a text condition "contains v" with a
\* value keeps the rows whose n contains v
filter_custom_field_by_name(field, filter_condition, rows) ==
    IF filter_condition.t # "obj" THEN [raised |-> TRUE, rows |-> rows]
    ELSE IF /\ IsStr(Get(filter_condition.filterType), S_text)
            /\ IsStr(Get(filter_condition.type), S_contains)
            /\ Truthy(Get(filter_condition.filter))
    THEN [raised |-> FALSE,
          rows |-> Select(rows, Lit(F_n, "icontains", Get(filter_condition.filter)))]
    ELSE [raised |-> FALSE, rows |-> rows]

\* AgGridFilterBackend.get_custom_filters: the dict of the view's
\* get_aggrid_custom_filters, field name to filter function, or {}
get_custom_filters(c) ==
    IF c.custom THEN [k \in {c.custom_key} |-> c.custom_function] ELSE <<>>

\* custom_filters[field](field=..., filter_condition=..., queryset=...)
CallCustom(function, field, filter_condition, rows) ==
    IF function = "filter_custom_field"
    THEN filter_custom_field(field, filter_condition, rows)
    ELSE filter_custom_field_by_name(field, filter_condition, rows)

\* the custom filters of apply_filters' loop, applied in the model's order
RECURSIVE ApplyCustom(_, _, _)
ApplyCustom(items, rows, custom_filters) ==
    IF items = <<>> THEN [raised |-> FALSE, rows |-> rows, calls |-> <<>>]
    ELSE IF items[1].field \in DOMAIN custom_filters
    THEN LET call == [field |-> convert_field_name(items[1].field),
                      filter_condition |-> items[1].cond, queryset |-> rows]
             r == CallCustom(custom_filters[items[1].field], call.field,
                             call.filter_condition, call.queryset)
             rest == ApplyCustom(Tail(items), r.rows, custom_filters)
         IN  IF r.raised THEN [raised |-> TRUE, rows |-> r.rows, calls |-> <<call>>]
             ELSE [rest EXCEPT !.calls = <<call>> \o rest.calls]
    ELSE ApplyCustom(Tail(items), rows, custom_filters)

\* the fields apply_filters collects in standard_filters
RECURSIVE StandardFilters(_, _)
StandardFilters(items, custom_filters) ==
    IF items = <<>> THEN <<>>
    ELSE (IF items[1].field \in DOMAIN custom_filters THEN <<>> ELSE <<items[1]>>)
         \o StandardFilters(Tail(items), custom_filters)

\* apply_filters giving every field of the model to the standard logic
apply_filters_all_standard(filter_model, rows, custom_filters) ==
    IF ~JTruthy(filter_model) THEN [raised |-> FALSE, rows |-> rows, calls |-> <<>>]
    ELSE IF filter_model.t # "obj" THEN [raised |-> TRUE, rows |-> rows, calls |-> <<>>]
    ELSE LET c == ApplyCustom(filter_model.items, rows, custom_filters)
             standard_filters == filter_model.items
             filter_q == build_filter_query(standard_filters)
         IN  IF c.raised THEN c
             ELSE IF standard_filters = <<>> THEN c
             ELSE IF filter_q.raised THEN [c EXCEPT !.raised = TRUE]
             ELSE IF filter_q.none \/ filter_q.q = EmptyQ THEN c
             ELSE IF QRaises(filter_q.q) THEN [c EXCEPT !.raised = TRUE]
             ELSE [c EXCEPT !.rows = FilterDistinct(c.rows, filter_q.q)]

\* AgGridFilterBackend.apply_filters
apply_filters(filter_model, rows, custom_filters) ==
    IF ~JTruthy(filter_model) THEN [raised |-> FALSE, rows |-> rows, calls |-> <<>>]
    ELSE IF filter_model.t # "obj" THEN [raised |-> TRUE, rows |-> rows, calls |-> <<>>]
    ELSE LET c == ApplyCustom(filter_model.items, rows, custom_filters)
             standard_filters == StandardFilters(filter_model.items, custom_filters)
             filter_q == build_filter_query(standard_filters)
         IN  IF c.raised THEN c
             ELSE IF standard_filters = <<>> THEN c
             ELSE IF filter_q.raised THEN [c EXCEPT !.raised = TRUE]
             ELSE IF filter_q.none \/ filter_q.q = EmptyQ THEN c
             ELSE IF QRaises(filter_q.q) THEN [c EXCEPT !.raised = TRUE]
             ELSE [c EXCEPT !.rows = FilterDistinct(c.rows, filter_q.q)]

\* the sorting step of filter_queryset
ApplySorting(req, rows) ==
    LET sort_model == get_sort_model(req)
        o == build_ordering(sort_model)
    IN  IF ~JTruthy(sort_model) THEN [raised |-> FALSE, rows |-> rows]
        ELSE IF o.raised THEN [raised |-> TRUE, rows |-> rows]
        ELSE IF o.ordering = <<>> THEN [raised |-> FALSE, rows |-> rows]
        ELSE IF OrderingRaises(o.ordering) THEN [raised |-> TRUE, rows |-> rows]
        ELSE [raised |-> FALSE, rows |-> order_by(rows, o.ordering)]

\* filter_queryset storing the total count before it looks at the request
filter_queryset_counts_first(req, rows, v, c, table) ==
    LET base_queryset == IF c.has_get_queryset THEN table ELSE rows
        v1 == [v EXCEPT !._ag_grid_total_count = Set(Len(base_queryset))]
        f == apply_filters(get_filter_model(req), rows, get_custom_filters(c))
        v2 == [v1 EXCEPT !._ag_grid_filtered_count = Set(Len(f.rows))]
        s == ApplySorting(req, f.rows)
    IN  IF ~is_aggrid_request(req) THEN [raised |-> FALSE, rows |-> rows, view |-> v1]
        ELSE IF f.raised THEN [raised |-> TRUE, rows |-> rows, view |-> v1]
        ELSE IF s.raised THEN [raised |-> TRUE, rows |-> rows, view |-> v2]
        ELSE [raised |-> FALSE, rows |-> s.rows, view |-> v2]

\* filter_queryset applying the row range itself, as its docstring announces
filter_queryset_paginating(req, rows, v, c, table) ==
    LET base_queryset == IF c.has_get_queryset THEN table ELSE rows
        v1 == [v EXCEPT !._ag_grid_total_count = Set(Len(base_queryset))]
        f == apply_filters(get_filter_model(req), rows, get_custom_filters(c))
        v2 == [v1 EXCEPT !._ag_grid_filtered_count = Set(Len(f.rows))]
        s == ApplySorting(req, f.rows)
        ranged == req.startRow.present /\ req.endRow.present
                  /\ ~IntRaises(req.startRow.s) /\ ~IntRaises(req.endRow.s)
    IN  IF ~is_aggrid_request(req) THEN [raised |-> FALSE, rows |-> rows, view |-> v]
        ELSE IF f.raised THEN [raised |-> TRUE, rows |-> rows, view |-> v1]
        ELSE IF s.raised THEN [raised |-> TRUE, rows |-> rows, view |-> v2]
        ELSE IF ranged
        THEN [raised |-> FALSE,
              rows |-> PySlice(s.rows, IntOf(req.startRow.s), IntOf(req.endRow.s)),
              view |-> v2]
        ELSE [raised |-> FALSE, rows |-> s.rows, view |-> v2]

\* filter_queryset letting the JSONDecodeError of a model through
filter_queryset_strict(req, rows, v, c, table) ==
    IF ~is_aggrid_request(req) THEN [raised |-> FALSE, rows |-> rows, view |-> v]
    ELSE LET base_queryset == IF c.has_get_queryset THEN table ELSE rows
             v1 == [v EXCEPT !._ag_grid_total_count = Set(Len(base_queryset))]
             f == apply_filters(get_filter_model(req), rows, get_custom_filters(c))
             v2 == [v1 EXCEPT !._ag_grid_filtered_count = Set(Len(f.rows))]
             s == ApplySorting(req, f.rows)
         IN  IF f.raised \/ (req.filter.present /\ req.filter.text = "invalid")
             THEN [raised |-> TRUE, rows |-> rows, view |-> v1]
             ELSE IF s.raised \/ (req.sort.present /\ req.sort.text = "invalid")
             THEN [raised |-> TRUE, rows |-> rows, view |-> v2]
             ELSE [raised |-> FALSE, rows |-> s.rows, view |-> v2]

\* AgGridFilterBackend.filter_queryset(request, queryset, view): the queryset
\* it returns and the view it leaves, or the exception it lets through after
\* the attributes it had stored by then
filter_queryset(req, rows, v, c, table) ==
    IF ~is_aggrid_request(req) THEN [raised |-> FALSE, rows |-> rows, view |-> v]
    ELSE LET base_queryset == IF c.has_get_queryset THEN table ELSE rows
             v1 == [v EXCEPT !._ag_grid_total_count = Set(Len(base_queryset))]
             f == apply_filters(get_filter_model(req), rows, get_custom_filters(c))
             v2 == [v1 EXCEPT !._ag_grid_filtered_count = Set(Len(f.rows))]
             s == ApplySorting(req, f.rows)
         IN  IF f.raised THEN [raised |-> TRUE, rows |-> rows, view |-> v1]
             ELSE IF s.raised THEN [raised |-> TRUE, rows |-> rows, view |-> v2]
             ELSE [raised |-> FALSE, rows |-> s.rows, view |-> v2]

----------------------------------------------------------------------------
(* pagination.py: AgGridPagination.                                        *)

Request(format, filter, sort, startRow, endRow, page_size) ==
    [format |-> format, filter |-> filter, sort |-> sort, startRow |-> startRow,
     endRow |-> endRow, page_size |-> page_size]

NoRequest == Request(NoParam, NoJson, NoJson, NoParam, NoParam, NoParam)

\* AgGridPagination.max_page_size
max_page_size == 1000

\* a paginator right after construction
NewPaginator ==
    [count |-> Unset, total_count |-> Unset, start_row |-> Unset, end_row |-> Unset,
     request |-> [set |-> FALSE, v |-> NoRequest], view |-> FALSE,
     page |-> [set |-> FALSE, v |-> <<>>]]

\* AgGridPagination.is_aggrid_request
is_aggrid_request_p(req) ==
    LET format_param == req.format
    IN  \/ format_param.present /\ format_param.s # <<>>
           /\ Lower(format_param.s) = S_aggrid
        \/ \E param \in {"filter", "sort", "startRow", "endRow"} :
              CASE param = "filter" -> req.filter.present
                [] param = "sort" -> req.sort.present
                [] param = "startRow" -> req.startRow.present
                [] param = "endRow" -> req.endRow.present

\* AgGridPagination.get_count
get_count(rows) == Len(rows)

\* the page size of the inherited PageNumberPagination: the page_size query
\* parameter (page_size_query_param) when it is a positive int, cut off at
\* max_page_size, and the configured page_size otherwise (0: none)
get_page_size(req, c) ==
    IF req.page_size.present /\ ~IntRaises(req.page_size.s) /\ IntOf(req.page_size.s) > 0
    THEN (IF IntOf(req.page_size.s) > max_page_size THEN max_page_size
          ELSE IntOf(req.page_size.s))
    ELSE c.page_size

\* super().paginate_queryset: PageNumberPagination, for a request without a
\* page parameter (the first page)
default_paginate_queryset(p, rows, req, c) ==
    LET page_size == get_page_size(req, c)
        first == PySlice(rows, 0, page_size)
    IN  IF page_size = 0
        THEN [paginator |-> p, result |-> [k |-> "none", rows |-> <<>>]]
        ELSE [paginator |-> [p EXCEPT !.page = [set |-> TRUE, v |-> first],
                                      !.request = [set |-> TRUE, v |-> req]],
              result |-> [k |-> "list", rows |-> first]]

\* paginate_queryset taking endRow as the last row of the block, not as the
\* row behind it
paginate_queryset_inclusive(p, rows, req, v, c) ==
    IF ~is_aggrid_request_p(req)
    THEN [view |-> v] @@ default_paginate_queryset(p, rows, req, c)
    ELSE IF ~req.startRow.present \/ ~req.endRow.present
    THEN [view |-> v] @@ default_paginate_queryset(p, rows, req, c)
    ELSE IF IntRaises(req.startRow.s) \/ IntRaises(req.endRow.s)
    THEN [view |-> v] @@ default_paginate_queryset(p, rows, req, c)
    ELSE LET start_row == IntOf(req.startRow.s)
             end_row == IntOf(req.endRow.s)
             count == get_count(rows)
             total_count == IF v._ag_grid_total_count.set
                            THEN v._ag_grid_total_count.v ELSE count
             p1 == [p EXCEPT !.total_count = Set(total_count), !.count = Set(count),
                             !.request = [set |-> TRUE, v |-> req], !.view = TRUE,
                             !.start_row = Set(start_row), !.end_row = Set(end_row)]
             v1 == [v EXCEPT !._ag_grid_total_count = Set(total_count),
                             !._ag_grid_filtered_count = Set(count)]
             actual_end_row == IF end_row + 1 < count THEN end_row + 1 ELSE count
             s == Slice(rows, start_row, actual_end_row, c.orm)
         IN  [paginator |-> p1, view |-> v1,
              result |-> IF start_row >= count THEN [k |-> "list", rows |-> <<>>]
                         ELSE IF s.raised THEN [k |-> "raised", rows |-> <<>>]
                         ELSE [k |-> "list", rows |-> s.rows]]

\* paginate_queryset storing the counts before it has parsed the row range
paginate_queryset_eager(p, rows, req, v, c) ==
    LET count == get_count(rows)
        p0 == [p EXCEPT !.count = Set(count), !.total_count = Set(count)]
    IN  IF ~is_aggrid_request_p(req)
        THEN [view |-> v] @@ default_paginate_queryset(p, rows, req, c)
        ELSE IF ~req.startRow.present \/ ~req.endRow.present
        THEN [view |-> v] @@ default_paginate_queryset(p0, rows, req, c)
        ELSE IF IntRaises(req.startRow.s) \/ IntRaises(req.endRow.s)
        THEN [view |-> v] @@ default_paginate_queryset(p0, rows, req, c)
        ELSE LET start_row == IntOf(req.startRow.s)
                 end_row == IntOf(req.endRow.s)
                 total_count == IF v._ag_grid_total_count.set
                                THEN v._ag_grid_total_count.v ELSE count
                 p1 == [p EXCEPT !.total_count = Set(total_count), !.count = Set(count),
                                 !.request = [set |-> TRUE, v |-> req], !.view = TRUE,
                                 !.start_row = Set(start_row), !.end_row = Set(end_row)]
                 v1 == [v EXCEPT !._ag_grid_total_count = Set(total_count),
                                 !._ag_grid_filtered_count = Set(count)]
                 actual_end_row == IF end_row < count THEN end_row ELSE count
                 s == Slice(rows, start_row, actual_end_row, c.orm)
             IN  [paginator |-> p1, view |-> v1,
                  result |-> IF start_row >= count THEN [k |-> "list", rows |-> <<>>]
                             ELSE IF s.raised THEN [k |-> "raised", rows |-> <<>>]
                             ELSE [k |-> "list", rows |-> s.rows]]

\* paginate_queryset reading a range given backwards as the range between
\* its two ends
paginate_queryset_either_order(p, rows, req, v, c) ==
    IF ~is_aggrid_request_p(req)
    THEN [view |-> v] @@ default_paginate_queryset(p, rows, req, c)
    ELSE IF ~req.startRow.present \/ ~req.endRow.present
    THEN [view |-> v] @@ default_paginate_queryset(p, rows, req, c)
    ELSE IF IntRaises(req.startRow.s) \/ IntRaises(req.endRow.s)
    THEN [view |-> v] @@ default_paginate_queryset(p, rows, req, c)
    ELSE LET start_row == IntOf(req.startRow.s)
             end_row == IntOf(req.endRow.s)
             count == get_count(rows)
             total_count == IF v._ag_grid_total_count.set
                            THEN v._ag_grid_total_count.v ELSE count
             p1 == [p EXCEPT !.total_count = Set(total_count), !.count = Set(count),
                             !.request = [set |-> TRUE, v |-> req], !.view = TRUE,
                             !.start_row = Set(start_row), !.end_row = Set(end_row)]
             v1 == [v EXCEPT !._ag_grid_total_count = Set(total_count),
                             !._ag_grid_filtered_count = Set(count)]
             actual_end_row == IF end_row < count THEN end_row ELSE count
             s == IF start_row > actual_end_row
                  THEN Slice(rows, actual_end_row, start_row, c.orm)
                  ELSE Slice(rows, start_row, actual_end_row, c.orm)
         IN  IF start_row >= count
             THEN [paginator |-> p1, view |-> v1,
                   result |-> [k |-> "list", rows |-> <<>>]]
             ELSE IF s.raised
             THEN [paginator |-> p1, view |-> v1,
                   result |-> [k |-> "raised", rows |-> <<>>]]
             ELSE [paginator |-> p1, view |-> v1,
                   result |-> [k |-> "list", rows |-> s.rows]]

\* paginate_queryset leaving a negative startRow or endRow to the default
\* pagination
paginate_queryset_no_negatives(p, rows, req, v, c) ==
    IF ~is_aggrid_request_p(req)
    THEN [view |-> v] @@ default_paginate_queryset(p, rows, req, c)
    ELSE IF ~req.startRow.present \/ ~req.endRow.present
    THEN [view |-> v] @@ default_paginate_queryset(p, rows, req, c)
    ELSE IF IntRaises(req.startRow.s) \/ IntRaises(req.endRow.s)
            \/ IntOf(req.startRow.s) < 0 \/ IntOf(req.endRow.s) < 0
    THEN [view |-> v] @@ default_paginate_queryset(p, rows, req, c)
    ELSE LET start_row == IntOf(req.startRow.s)
             end_row == IntOf(req.endRow.s)
             count == get_count(rows)
             total_count == IF v._ag_grid_total_count.set
                            THEN v._ag_grid_total_count.v ELSE count
             p1 == [p EXCEPT !.total_count = Set(total_count), !.count = Set(count),
                             !.request = [set |-> TRUE, v |-> req], !.view = TRUE,
                             !.start_row = Set(start_row), !.end_row = Set(end_row)]
             v1 == [v EXCEPT !._ag_grid_total_count = Set(total_count),
                             !._ag_grid_filtered_count = Set(count)]
             actual_end_row == IF end_row < count THEN end_row ELSE count
             s == Slice(rows, start_row, actual_end_row, c.orm)
         IN  IF start_row >= count
             THEN [paginator |-> p1, view |-> v1,
                   result |-> [k |-> "list", rows |-> <<>>]]
             ELSE IF s.raised
             THEN [paginator |-> p1, view |-> v1,
                   result |-> [k |-> "raised", rows |-> <<>>]]
             ELSE [paginator |-> p1, view |-> v1,
                   result |-> [k |-> "list", rows |-> s.rows]]

\* AgGridPagination.paginate_queryset(queryset, request, view): the paginator
\* and the view it leaves and what it returns (None, a list, or the exception
\* of the slice)
paginate_queryset(p, rows, req, v, c) ==
    IF ~is_aggrid_request_p(req)
    THEN [view |-> v] @@ default_paginate_queryset(p, rows, req, c)
    ELSE IF ~req.startRow.present \/ ~req.endRow.present
    THEN [view |-> v] @@ default_paginate_queryset(p, rows, req, c)
    ELSE IF IntRaises(req.startRow.s) \/ IntRaises(req.endRow.s)
    THEN [view |-> v] @@ default_paginate_queryset(p, rows, req, c)
    ELSE LET start_row == IntOf(req.startRow.s)
             end_row == IntOf(req.endRow.s)
             total_count == IF v._ag_grid_total_count.set
                            THEN v._ag_grid_total_count.v
                            ELSE get_count(rows)
             count == get_count(rows)
             p1 == [p EXCEPT !.total_count = Set(total_count),
                             !.count = Set(count),
                             !.request = [set |-> TRUE, v |-> req],
                             !.view = TRUE,
                             !.start_row = Set(start_row),
                             !.end_row = Set(end_row)]
             v1 == [v EXCEPT !._ag_grid_total_count =
                                 IF v._ag_grid_total_count.set
                                 THEN v._ag_grid_total_count
                                 ELSE Set(total_count),
                             !._ag_grid_filtered_count = Set(count)]
             actual_end_row == IF end_row < count THEN end_row ELSE count
             s == Slice(rows, start_row, actual_end_row, c.orm)
         IN  IF start_row >= count
             THEN [paginator |-> p1, view |-> v1,
                   result |-> [k |-> "list", rows |-> <<>>]]
             ELSE IF s.raised
             THEN [paginator |-> p1, view |-> v1,
                   result |-> [k |-> "raised", rows |-> <<>>]]
             ELSE [paginator |-> p1, view |-> v1,
                   result |-> [k |-> "list", rows |-> s.rows]]

(* The data of a response: a list of rows, the ag-grid envelope, a dict    *)
(* with results (and maybe count and total_count), or, k = "raised", the   *)
(* exception that took its place.                                          *)
Payload(k, rows, rowCount, totalCount, count, total_count) ==
    [k |-> k, rows |-> rows, rowCount |-> rowCount, totalCount |-> totalCount,
     count |-> count, total_count |-> total_count]

ListData(rows) == Payload("list", rows, Unset, Unset, Unset, Unset)
Envelope(rowCount, totalCount, rows) ==
    Payload("envelope", rows, Set(rowCount), Set(totalCount), Unset, Unset)
Raised == Payload("raised", <<>>, Unset, Unset, Unset, Unset)
NoData == Payload("none", <<>>, Unset, Unset, Unset, Unset)

\* get_paginated_response reporting the length of the page as rowCount
get_paginated_response_page_length(p, data) ==
    IF ~p.count.set \/ ~p.request.set THEN Raised
    ELSE LET total_count == IF p.total_count.set THEN p.total_count.v ELSE p.count.v
             format_param == p.request.v.format
         IN  IF format_param.present /\ format_param.s # <<>>
                /\ Lower(format_param.s) = S_aggrid
             THEN ListData(data)
             ELSE Envelope(Len(data), total_count, data)

\* AgGridPagination.get_paginated_response(data): getattr's default is
\* evaluated before the call, so a paginator without count raises, as does
\* one without request
get_paginated_response(p, data) ==
    IF ~p.count.set \/ ~p.request.set THEN Raised
    ELSE LET total_count == IF p.total_count.set THEN p.total_count.v ELSE p.count.v
             filtered_count == p.count.v
             format_param == p.request.v.format
         IN  IF format_param.present /\ format_param.s # <<>>
                /\ Lower(format_param.s) = S_aggrid
             THEN ListData(data)
             ELSE Envelope(filtered_count, total_count, data)

----------------------------------------------------------------------------
(* renderer.py: AgGridRenderer.                                            *)

\* a renderer context: None, or a dict whose view and request may be None
Context(present, has_view, v, has_paginator, has_request, req) ==
    [present |-> present,
     view |-> [present |-> has_view, attrs |-> v, has_paginator |-> has_paginator],
     request |-> [present |-> has_request, v |-> req]]

\* the renderer's own pagination applied on views with a paginator as well
RenderSlice_any_view(k, rows, ctx) ==
    LET has_request == ctx.present /\ ctx.request.present
        req == ctx.request.v
    IN  IF ~has_request THEN [raised |-> FALSE, rows |-> rows]
        ELSE IF ~req.startRow.present \/ ~req.endRow.present
        THEN [raised |-> FALSE, rows |-> rows]
        ELSE IF IntRaises(req.startRow.s) \/ IntRaises(req.endRow.s)
        THEN [raised |-> FALSE, rows |-> rows]
        ELSE LET start_row == IntOf(req.startRow.s)
                 end_row == IntOf(req.endRow.s)
                 actual_end_row == IF end_row < Len(rows) THEN end_row ELSE Len(rows)
             IN  IF ~(start_row < Len(rows)) THEN [raised |-> FALSE, rows |-> rows]
                 ELSE IF k = "other" THEN [raised |-> TRUE, rows |-> rows]
                 ELSE [raised |-> FALSE,
                       rows |-> PySlice(rows, start_row, actual_end_row)]

\* the rows after the renderer's own pagination; a dict that is no list
\* cannot be sliced
RenderSlice(k, rows, ctx) ==
    LET has_request == ctx.present /\ ctx.request.present
        has_paginator == ctx.present /\ ctx.view.present /\ ctx.view.has_paginator
        req == ctx.request.v
    IN  IF ~has_request \/ has_paginator THEN [raised |-> FALSE, rows |-> rows]
        ELSE IF ~req.startRow.present \/ ~req.endRow.present
        THEN [raised |-> FALSE, rows |-> rows]
        ELSE IF IntRaises(req.startRow.s) \/ IntRaises(req.endRow.s)
        THEN [raised |-> FALSE, rows |-> rows]
        ELSE LET start_row == IntOf(req.startRow.s)
                 end_row == IntOf(req.endRow.s)
                 actual_end_row == IF end_row < Len(rows) THEN end_row ELSE Len(rows)
             IN  IF ~(start_row < Len(rows)) THEN [raised |-> FALSE, rows |-> rows]
                 ELSE IF k = "other" THEN [raised |-> TRUE, rows |-> rows]
                 ELSE [raised |-> FALSE,
                       rows |-> PySlice(rows, start_row, actual_end_row)]

\* render reporting the number of rows it emits as rowCount
render_counting_emitted(data, ctx) ==
    IF data.k = "envelope" THEN data
    ELSE LET has_view == ctx.present /\ ctx.view.present
             view_total == IF has_view /\ ctx.view.attrs._ag_grid_total_count.set
                           THEN ctx.view.attrs._ag_grid_total_count.v ELSE 0
             total_count ==
                 IF data.k = "results" /\ data.count.set
                 THEN (IF data.total_count.set THEN data.total_count.v
                       ELSE data.count.v)
                 ELSE view_total
             s == RenderSlice(data.k, data.rows, ctx)
         IN  IF s.raised THEN Raised
             ELSE Envelope(Len(s.rows), total_count, s.rows)

\* render wrapping whatever it is given, an envelope too
render_rewrap(data, ctx) ==
    LET has_view == ctx.present /\ ctx.view.present
        view_total == IF has_view /\ ctx.view.attrs._ag_grid_total_count.set
                      THEN ctx.view.attrs._ag_grid_total_count.v ELSE 0
        view_filtered == IF has_view /\ ctx.view.attrs._ag_grid_filtered_count.set
                         THEN ctx.view.attrs._ag_grid_filtered_count.v ELSE 0
        filtered_count ==
            IF data.k = "results"
            THEN (IF data.count.set THEN data.count.v ELSE view_filtered)
            ELSE (IF view_filtered = 0 THEN Len(data.rows) ELSE view_filtered)
        total_count ==
            IF data.k = "results" /\ data.count.set
            THEN (IF data.total_count.set THEN data.total_count.v ELSE data.count.v)
            ELSE view_total
        s == RenderSlice(data.k, data.rows, ctx)
    IN  IF s.raised THEN Raised
        ELSE Envelope(filtered_count, total_count, s.rows)

\* render with the two counts of the envelope taking each other's place
render_counts_swapped(data, ctx) ==
    IF data.k = "envelope" THEN data
    ELSE LET has_view == ctx.present /\ ctx.view.present
             view_total == IF has_view /\ ctx.view.attrs._ag_grid_total_count.set
                           THEN ctx.view.attrs._ag_grid_total_count.v ELSE 0
             view_filtered == IF has_view /\ ctx.view.attrs._ag_grid_filtered_count.set
                              THEN ctx.view.attrs._ag_grid_filtered_count.v ELSE 0
             filtered_count ==
                 IF data.k = "results"
                 THEN (IF data.count.set THEN data.count.v ELSE view_filtered)
                 ELSE (IF view_filtered = 0 THEN Len(data.rows) ELSE view_filtered)
             total_count ==
                 IF data.k = "results" /\ data.count.set
                 THEN (IF data.total_count.set THEN data.total_count.v
                       ELSE data.count.v)
                 ELSE view_total
             s == RenderSlice(data.k, data.rows, ctx)
         IN  IF s.raised THEN Raised
             ELSE Envelope(total_count, filtered_count, s.rows)

\* AgGridRenderer.render(data, accepted_media_type, renderer_context): the
\* payload it hands to JSONRenderer.render
render(data, ctx) ==
    IF data.k = "envelope" THEN data
    ELSE LET has_view == ctx.present /\ ctx.view.present
             view_total == IF has_view /\ ctx.view.attrs._ag_grid_total_count.set
                           THEN ctx.view.attrs._ag_grid_total_count.v ELSE 0
             view_filtered == IF has_view /\ ctx.view.attrs._ag_grid_filtered_count.set
                              THEN ctx.view.attrs._ag_grid_filtered_count.v ELSE 0
             filtered_count ==
                 IF data.k = "results"
                 THEN (IF data.count.set THEN data.count.v ELSE view_filtered)
                 ELSE (IF view_filtered = 0 THEN Len(data.rows) ELSE view_filtered)
             total_count ==
                 IF data.k = "results" /\ data.count.set
                 THEN (IF data.total_count.set THEN data.total_count.v
                       ELSE data.count.v)
                 ELSE view_total
             s == RenderSlice(data.k, data.rows, ctx)
         IN  IF s.raised THEN Raised
             ELSE Envelope(filtered_count, total_count, s.rows)

----------------------------------------------------------------------------
(* mixins.py: AgGridAutoPaginationMixin.  A pagination class is its name;  *)
(* "None" is no class.                                                     *)

PaginationClasses ==
    {"None", "PageNumberPagination", "LimitOffsetPagination", "AgGridPagination"}

\* AgGridAutoPaginationMixin.aggrid_pagination_class
aggrid_pagination_class == "AgGridPagination"

\* initial comparing the format parameter without regard to case
initial_any_case(v, req, c) ==
    LET original == IF v._original_pagination_class = "None"
                    THEN v.pagination_class
                    ELSE v._original_pagination_class
        is_aggrid == req.format.present /\ Lower(req.format.s) = S_aggrid
    IN  [v EXCEPT !._original_pagination_class = original,
                  !.pagination_class =
                      IF is_aggrid THEN aggrid_pagination_class
                      ELSE IF c.standard_pagination_class # "None"
                      THEN c.standard_pagination_class
                      ELSE original]

\* AgGridAutoPaginationMixin.initial(request): the view it leaves
initial(v, req, c) ==
    LET original == IF v._original_pagination_class = "None"
                    THEN v.pagination_class
                    ELSE v._original_pagination_class
        is_aggrid == req.format.present /\ req.format.s = S_aggrid
    IN  [v EXCEPT !._original_pagination_class = original,
                  !.pagination_class =
                      IF is_aggrid THEN aggrid_pagination_class
                      ELSE IF c.standard_pagination_class # "None"
                      THEN c.standard_pagination_class
                      ELSE original]

\* finalize_response restoring only a class that is not None
finalize_response_if_stored(v) ==
    IF v._original_pagination_class = "None" THEN v
    ELSE [v EXCEPT !.pagination_class = v._original_pagination_class]

\* AgGridAutoPaginationMixin.finalize_response(request, response): the view
\* it leaves
finalize_response(v) ==
    [v EXCEPT !.pagination_class = v._original_pagination_class]

\* AgGridPaginationMixin.get_paginated_response with the renderer's reading
\* of a missing filtered count: the length of the data
mixin_get_paginated_response_len(v, has_request, req, data) ==
    LET total_count == IF v._ag_grid_total_count.set
                       THEN v._ag_grid_total_count.v ELSE 0
        filtered_count == IF v._ag_grid_filtered_count.set
                          THEN v._ag_grid_filtered_count.v ELSE Len(data)
    IN  IF /\ has_request
           /\ req.format.present
           /\ req.format.s # <<>>
           /\ Lower(req.format.s) = S_aggrid
        THEN ListData(data)
        ELSE Envelope(filtered_count, total_count, data)

\* AgGridPaginationMixin.get_paginated_response(data), of mixins.py and,
\* with the same body, of filter.py: what it returns (the data or a dict)
mixin_get_paginated_response(v, has_request, req, data) ==
    LET total_count == IF v._ag_grid_total_count.set
                       THEN v._ag_grid_total_count.v ELSE 0
        filtered_count == IF v._ag_grid_filtered_count.set
                          THEN v._ag_grid_filtered_count.v ELSE 0
    IN  IF /\ has_request
           /\ req.format.present
           /\ req.format.s # <<>>
           /\ Lower(req.format.s) = S_aggrid
        THEN ListData(data)
        ELSE Envelope(filtered_count, total_count, data)

----------------------------------------------------------------------------
(* The inputs of the model.                                                *)

S_a == <<"a">>
S_b == <<"b">>
S_x == <<"x">>
S_ab == <<"a", "b">>
S_Ab == <<"A", "b">>
S_ba == <<"b", "a">>
S_y == <<"y">>

\* the i-th row of the table
TableRow(i) ==
    [id |-> i,
     n |-> <<S_ab, S_Ab, S_b, S_ba>>[((i - 1) % 4) + 1],
     a |-> <<1, 2, 2, 0, 3>>[((i - 1) % 5) + 1],
     o_n |-> <<S_x, S_y, S_x>>[((i - 1) % 3) + 1]]

Table == [i \in 1..MaxRows |-> TableRow(i)]

\* the queryset the view hands to the filter backend: get_queryset(), or
\* what an earlier filter backend (SearchFilter) left of it
Incoming == {Table, Tail(Table)}

TextCond(type, filter) == Cond(Str(S_text), Str(type), filter, Absent, Absent, Absent, Absent)
NumberCond(type, filter, filterTo) ==
    Cond(Str(S_number), Str(type), filter, filterTo, Absent, Absent, Absent)
Item(field, cond) == [field |-> field, cond |-> cond]

FM_text == JObj(<<Item(F_n, TextCond(S_contains, Str(S_a)))>>)
FM_number == JObj(<<Item(F_a, NumberCond(S_greaterThan, Num(1), Absent))>>)
FM_dotted == JObj(<<Item(F_o_n, TextCond(S_equals, Str(S_x)))>>)
FM_two == JObj(<<Item(F_n, TextCond(S_startsWith, Str(S_a))),
                 Item(F_a, NumberCond(S_inRange, Num(2), Num(3)))>>)
FM_custom == JObj(<<Item(F_custom, TextCond(S_contains, Str(S_a))),
                    Item(F_a, NumberCond(S_lessThan, Num(2), Absent))>>)
FM_none == JObj(<<Item(F_n, TextCond(S_notContains, Str(S_b)))>>)
FM_list == JList(<<Item(F_n, NotAnObject)>>)

FilterParams ==
    {NoJson, EmptyJson, InvalidJson, Json(JObj(<<>>)), Json(FM_text), Json(FM_number),
     Json(FM_dotted), Json(FM_two), Json(FM_custom), Json(FM_none), Json(FM_list)}

SM_desc == JList(<<SortItem(Str(F_a), Str(S_desc))>>)
SM_two == JList(<<SortItem(Str(F_o_n), Str(S_asc)), SortItem(Str(F_n), Str(S_desc))>>)
SM_skip == JList(<<SortItem(Absent, Str(S_desc)), SortItem(Str(F_n), Absent)>>)

SortParams == {NoJson, InvalidJson, Json(JList(<<>>)), Json(SM_desc), Json(SM_two),
               Json(SM_skip)}

FormatParams == {NoParam, Param(S_aggrid), Param(S_AgGrid), Param(S_json)}

\* str(i) for a small int
IntStr(i) ==
    IF i < 0 THEN <<"-", Digits[1 - i]>>
    ELSE IF i < 10 THEN <<Digits[i + 1]>>
    ELSE <<Digits[(i \div 10) + 1], Digits[(i % 10) + 1]>>

RowIndexes == (0 - 1)..(MaxRows + RowSlack)

\* row indexes that reach behind the first row from the end
WideRowIndexes == (0 - MaxRows - 1)..(MaxRows + RowSlack)

RowParams == {NoParam, Param(S_x), Param(<<" ", "1">>)} \cup {Param(IntStr(i)) : i \in RowIndexes}

\* requests that vary the row range
RangeRequests ==
    {Request(f, fm, sm, s, e, NoParam) :
        f \in {NoParam, Param(S_aggrid)}, fm \in {NoJson, Json(FM_text)},
        sm \in {NoJson, Json(SM_desc)}, s \in RowParams, e \in RowParams}

\* requests that vary the filter and the sort model
ModelRequests ==
    {Request(f, fm, sm, r[1], r[2], NoParam) :
        f \in FormatParams, fm \in FilterParams, sm \in SortParams,
        r \in {<<NoParam, NoParam>>, <<Param(IntStr(0)), Param(IntStr(2))>>}}

\* requests that carry a page_size
PageSizeRequests ==
    {Request(f, NoJson, NoJson, s, e, ps) :
        f \in {NoParam, Param(S_aggrid)}, s \in {NoParam, Param(S_x), Param(IntStr(0))},
        e \in {NoParam, Param(IntStr(2))}, ps \in {Param(IntStr(1)), Param(S_x)}}

Requests == RangeRequests \cup ModelRequests \cup PageSizeRequests

\* the views: with or without get_queryset, over a QuerySet or a list-like
\* collection, with or without a configured page size, with or without
\* get_aggrid_custom_filters, with or without a paginator attribute; the
\* renderer context they hand to the renderer
BaseConfig ==
    [has_get_queryset |-> TRUE, orm |-> TRUE, page_size |-> 0, custom |-> FALSE,
     has_paginator |-> TRUE, context |-> "full", has_request |-> TRUE,
     custom_key |-> F_custom, custom_function |-> "filter_custom_field",
     pagination_class |-> "AgGridPagination", standard_pagination_class |-> "None"]

ListConfigs ==
    {[BaseConfig EXCEPT !.has_get_queryset = g, !.orm = o, !.page_size = ps,
                        !.custom = c] :
        g \in BOOLEAN, o \in BOOLEAN, ps \in {0, 2}, c \in BOOLEAN}

\* the renderer context of a view: None ("none"), a dict without view and
\* request ("empty"), or a dict with both ("full")
ContextOf(c, v, req) ==
    Context(c.context # "none", c.context = "full", v, c.has_paginator,
            c.context = "full", req)

----------------------------------------------------------------------------
(* Spec: list requests on ExampleModelAgGridViewSet.  Every request is     *)
(* served by a view instance of its own, as the framework's as_view does.  *)

Init ==
    /\ db = Table
    /\ cfg \in ListConfigs
    /\ pc = "idle"
    /\ request = NoRequest
    /\ queryset = <<>>
    /\ view = NewView(cfg.pagination_class)
    /\ paginator = NewPaginator
    /\ page = [k |-> "none", rows |-> <<>>]
    /\ response = NoData
    /\ rendered = NoData
    /\ built = NoBuilt

\* a request arrives: the view and its paginator are constructed, and
\* list() calls filter_queryset on the incoming queryset
ReceiveRequest ==
    /\ pc = "idle"
    /\ \E req \in Requests, incoming \in Incoming :
          /\ request' = req
          /\ queryset' = incoming
    /\ view' = NewView(cfg.pagination_class)
    /\ paginator' = NewPaginator
    /\ page' = [k |-> "none", rows |-> <<>>]
    /\ response' = NoData
    /\ rendered' = NoData
    /\ pc' = "filter"
    /\ UNCHANGED <<db, cfg, built>>

\* AgGridFilterBackend.filter_queryset(request, queryset, view)
FilterQueryset ==
    /\ pc = "filter"
    /\ LET r == filter_queryset(request, queryset, view, cfg, db)
       IN  /\ view' = r.view
           /\ queryset' = r.rows
           /\ pc' = IF r.raised THEN "failed" ELSE "paginate"
    /\ UNCHANGED <<db, cfg, built, request, paginator, page, response, rendered>>

\* AgGridPagination.paginate_queryset(queryset, request, view); when it
\* returns None the handler answers with the whole queryset
PaginateQueryset ==
    /\ pc = "paginate"
    /\ LET r == paginate_queryset(paginator, queryset, request, view, cfg)
       IN  /\ paginator' = r.paginator
           /\ view' = r.view
           /\ page' = r.result
           /\ response' = IF r.result.k = "none" THEN ListData(queryset) ELSE response
           /\ pc' = CASE r.result.k = "none" -> "render"
                      [] r.result.k = "list" -> "respond"
                      [] r.result.k = "raised" -> "failed"
    /\ UNCHANGED <<db, cfg, built, request, queryset, rendered>>

\* AgGridPagination.get_paginated_response(data), called through
\* ExampleModelAgGridViewSet.get_paginated_response
GetPaginatedResponse ==
    /\ pc = "respond"
    /\ response' = get_paginated_response(paginator, page.rows)
    /\ pc' = IF response'.k = "raised" THEN "failed" ELSE "render"
    /\ UNCHANGED <<db, cfg, built, request, queryset, view, paginator, page, rendered>>

\* the renderer the format parameter selects: AgGridRenderer (format
\* "aggrid") or JSONRenderer, which emits the data as it is
Render ==
    /\ pc = "render"
    /\ rendered' = IF request.format.present /\ request.format.s = S_aggrid
                   THEN render(response, ContextOf(cfg, view, request))
                   ELSE response
    /\ pc' = IF rendered'.k = "raised" THEN "failed" ELSE "done"
    /\ UNCHANGED <<db, cfg, built, request, queryset, view, paginator, page, response>>

\* the response (or the error) has been sent: the view instance and its
\* paginator are dropped
Finish ==
    /\ pc \in {"done", "failed"}
    /\ pc' = "idle"
    /\ request' = NoRequest
    /\ queryset' = <<>>
    /\ view' = NewView(cfg.pagination_class)
    /\ paginator' = NewPaginator
    /\ page' = [k |-> "none", rows |-> <<>>]
    /\ response' = NoData
    /\ rendered' = NoData
    /\ UNCHANGED <<db, cfg, built>>

Next ==
    \/ ReceiveRequest
    \/ FilterQueryset
    \/ PaginateQueryset
    \/ GetPaginatedResponse
    \/ Render
    \/ Finish

Spec == Init /\ [][Next]_vars

----------------------------------------------------------------------------
(* SpecDispatch: a view with AgGridAutoPaginationMixin serves one request  *)
(* after another; the framework calls initial before the handler and       *)
(* finalize_response after it.                                             *)

DispatchConfigs ==
    {[BaseConfig EXCEPT !.pagination_class = pcl, !.standard_pagination_class = st] :
        pcl \in PaginationClasses,
        st \in {"None", "PageNumberPagination", "LimitOffsetPagination"}}

DispatchRequests ==
    {Request(f, NoJson, NoJson, s, s, NoParam) :
        f \in FormatParams \cup {Param(<<>>), Param(S_AGGRID)},
        s \in {NoParam, Param(IntStr(0))}}

InitDispatch ==
    /\ db = Table
    /\ cfg \in DispatchConfigs
    /\ pc = "idle"
    /\ request = NoRequest
    /\ queryset = <<>>
    /\ view = NewView(cfg.pagination_class)
    /\ paginator = NewPaginator
    /\ page = [k |-> "none", rows |-> <<>>]
    /\ response = NoData
    /\ rendered = NoData
    /\ built = NoBuilt

\* AgGridAutoPaginationMixin.initial(request)
Initial ==
    /\ pc = "idle"
    /\ \E req \in DispatchRequests :
          /\ request' = req
          /\ view' = initial(view, req, cfg)
    /\ pc' = "handling"
    /\ UNCHANGED <<db, cfg, built, queryset, paginator, page, response, rendered>>

\* AgGridAutoPaginationMixin.finalize_response(request, response)
FinalizeResponse ==
    /\ pc = "handling"
    /\ view' = finalize_response(view)
    /\ pc' = "idle"
    /\ UNCHANGED <<db, cfg, built, request, queryset, paginator, page, response, rendered>>

NextDispatch ==
    \/ Initial
    \/ FinalizeResponse

SpecDispatch == InitDispatch /\ [][NextDispatch]_vars

----------------------------------------------------------------------------
(* SpecRender: AgGridRenderer.render on the payloads and the renderer      *)
(* contexts a view can hand to it, and on its own output.                  *)

RowLists == {SubSeq(Table, 1, k) : k \in 0..MaxRows}

CountValues == {Unset, Set(0), Set(1), Set(MaxRows + 2)}

RenderPayloads ==
    {ListData(rows) : rows \in RowLists}
    \cup {Envelope(rc, tc, rows) : rc \in {0, 2, MaxRows + 2}, tc \in {0, MaxRows + 2},
                                   rows \in RowLists}
    \cup {Payload("results", rows, Unset, Unset, c, tc) :
             rows \in RowLists, c \in {Unset, Set(MaxRows)}, tc \in {Unset, Set(MaxRows + 2)}}

RenderConfigs ==
    {[BaseConfig EXCEPT !.has_paginator = hp, !.context = cx] :
        hp \in BOOLEAN, cx \in {"none", "empty", "full"}}

RenderRequests ==
    {Request(Param(S_aggrid), NoJson, NoJson, s, e, NoParam) :
        s \in {NoParam, Param(S_x), Param(IntStr(0)), Param(IntStr(1))},
        e \in {NoParam, Param(IntStr(2)), Param(IntStr(MaxRows + 1))}}

InitRender ==
    /\ db = Table
    /\ cfg \in RenderConfigs
    /\ pc = "render"
    /\ request \in RenderRequests
    /\ queryset = <<>>
    /\ \E tc \in CountValues, fc \in CountValues :
          view = [NewView(cfg.pagination_class) EXCEPT
                     !._ag_grid_total_count = tc, !._ag_grid_filtered_count = fc]
    /\ paginator = NewPaginator
    /\ page = [k |-> "none", rows |-> <<>>]
    /\ response \in RenderPayloads
    /\ rendered = NoData
    /\ built = NoBuilt

\* AgGridRenderer.render(data, accepted_media_type, renderer_context)
RenderData ==
    /\ pc = "render"
    /\ rendered' = render(response, ContextOf(cfg, view, request))
    /\ pc' = "done"
    /\ UNCHANGED <<db, cfg, built, request, queryset, view, paginator, page, response>>

\* what the renderer emitted is handed to it again
RenderAgain ==
    /\ pc = "done"
    /\ rendered.k # "raised"
    /\ response # rendered
    /\ response' = rendered
    /\ rendered' = NoData
    /\ pc' = "render"
    /\ UNCHANGED <<db, cfg, built, request, queryset, view, paginator, page>>

NextRender ==
    \/ RenderData
    \/ RenderAgain

SpecRender == InitRender /\ [][NextRender]_vars

----------------------------------------------------------------------------
(* SpecMixinResponse: a view with AgGridPaginationMixin, with or without a *)
(* request and with or without counts, answers with                        *)
(* get_paginated_response.                                                 *)

MixinRequests ==
    {Request(f, NoJson, NoJson, s, s, NoParam) :
        f \in FormatParams \cup {Param(<<>>), Param(S_AGGRID)},
        s \in {NoParam, Param(IntStr(0))}}

InitMixinResponse ==
    /\ db = Table
    /\ cfg \in {[BaseConfig EXCEPT !.has_request = r] : r \in BOOLEAN}
    /\ pc = "respond"
    /\ request \in MixinRequests
    /\ queryset = <<>>
    /\ \E tc \in CountValues, fc \in CountValues :
          view = [NewView(cfg.pagination_class) EXCEPT
                     !._ag_grid_total_count = tc, !._ag_grid_filtered_count = fc]
    /\ paginator = NewPaginator
    /\ page \in {[k |-> "list", rows |-> rows] : rows \in RowLists}
    /\ response = NoData
    /\ rendered = NoData
    /\ built = NoBuilt

\* AgGridPaginationMixin.get_paginated_response(data)
MixinGetPaginatedResponse ==
    /\ pc = "respond"
    /\ response' = mixin_get_paginated_response(view, cfg.has_request, request, page.rows)
    /\ pc' = "done"
    /\ UNCHANGED <<db, cfg, built, request, queryset, view, paginator, page, rendered>>

NextMixinResponse ==
    \/ MixinGetPaginatedResponse

SpecMixinResponse == InitMixinResponse /\ [][NextMixinResponse]_vars

----------------------------------------------------------------------------
(* SpecBuild: the helpers of the filter backend that build a Q object or   *)
(* an ordering, each called by itself on the filter model or the sort      *)
(* model of a request.                                                     *)

TextTypes ==
    {Str(S_equals), Str(S_notEqual), Str(S_contains), Str(S_notContains),
     Str(S_startsWith), Str(S_endsWith), Str(S_inRange), Absent}

NumberTypes ==
    {Str(S_equals), Str(S_notEqual), Str(S_lessThan), Str(S_lessThanOrEqual),
     Str(S_greaterThan), Str(S_greaterThanOrEqual), Str(S_inRange), Str(S_contains),
     Absent}

DateTypes ==
    {Str(S_equals), Str(S_notEqual), Str(S_lessThan), Str(S_greaterThan),
     Str(S_inRange), Str(S_contains), Absent}

\* the conditions of each filterType, with and without a value
TextConds ==
    {Cond(Str(S_text), ty, v, Absent, Absent, Absent, Absent) :
        ty \in TextTypes, v \in {Absent, None, Str(<<>>), Str(S_a)}}

NumberConds ==
    {Cond(Str(S_number), ty, v, to, Absent, Absent, Absent) :
        ty \in NumberTypes, v \in {Absent, None, Num(0), Num(2), Str(<<>>)},
        to \in {Absent, None, Num(3)}}

DateConds ==
    {Cond(Str(S_date), ty, Absent, Absent, from, to, Absent) :
        ty \in DateTypes, from \in {Absent, None, Str(<<>>), Str(S_a)},
        to \in {Absent, Str(<<>>), Str(S_b)}}

SetConds ==
    {Cond(Str(S_set), Absent, Absent, Absent, Absent, Absent, v) :
        v \in {Absent, None, List(<<>>), List(<<Str(S_a), Str(S_b)>>)}}

BooleanConds ==
    {Cond(Str(S_boolean), Absent, v, Absent, Absent, Absent, Absent) :
        v \in {Absent, None, Bool(TRUE), Bool(FALSE)}}

\* conditions with a filterType that is not known, or with none
OtherConds ==
    {Cond(ft, Str(S_contains), Str(S_a), Absent, Absent, Absent, Absent) :
        ft \in {Str(S_x), Absent}}

BuildConds ==
    TextConds \cup NumberConds \cup DateConds \cup SetConds \cup BooleanConds
    \cup OtherConds

\* filter models: no model, the empty one, one field, and some of two and
\* three fields
BuildFilterModels ==
    {JNull, JObj(<<>>)}
    \cup {JObj(<<Item(f, c)>>) : f \in {F_n, F_o_n}, c \in BuildConds}
    \cup {JObj(<<Item(F_n, c), Item(F_a, d)>>) :
             c \in {TextCond(S_contains, Str(S_a)), TextCond(S_contains, Str(<<>>)),
                    Cond(Str(S_x), Absent, Str(S_a), Absent, Absent, Absent, Absent)},
             d \in {NumberCond(S_inRange, Num(0), Num(3)),
                    Cond(Absent, Str(S_equals), Num(2), Absent, Absent, Absent, Absent)}}
    \cup {JObj(<<Item(F_a, NumberCond(S_lessThan, Num(2), Absent)),
                 Item(F_custom, Cond(Str(S_x), Absent, Absent, Absent, Absent, Absent,
                                     Absent)),
                 Item(F_o_n, TextCond(S_equals, Str(S_x)))>>)}

SortItems ==
    {SortItem(col, s) :
        col \in {Absent, None, Str(<<>>), Str(F_n), Str(F_o_n), Num(1)},
        s \in {Absent, None, Str(<<>>), Str(S_asc), Str(S_desc), Str(S_x)}}

\* sort models: no model, the empty one, one item, and some of two
BuildSortModels ==
    {JNull, JList(<<>>)}
    \cup {JList(<<i>>) : i \in SortItems}
    \cup {JList(<<i, j>>) :
             i \in {SortItem(Str(F_a), Str(S_desc)), SortItem(Str(F_a), Absent),
                    SortItem(Absent, Str(S_asc))},
             j \in {SortItem(Str(F_o_n), Str(S_asc)), SortItem(Str(F_n), Str(S_desc)),
                    SortItem(Str(<<>>), Str(S_desc))}}

BuildRequests ==
    {Request(NoParam, IF fm = JNull THEN NoJson ELSE Json(fm), NoJson, NoParam, NoParam,
             NoParam) : fm \in BuildFilterModels}
    \cup {Request(NoParam, NoJson, IF sm = JNull THEN NoJson ELSE Json(sm), NoParam,
                  NoParam, NoParam) : sm \in BuildSortModels}

InitBuild ==
    /\ db = Table
    /\ cfg = BaseConfig
    /\ pc = "idle"
    /\ request \in BuildRequests
    /\ queryset = Table
    /\ view = NewView(cfg.pagination_class)
    /\ paginator = NewPaginator
    /\ page = [k |-> "none", rows |-> <<>>]
    /\ response = NoData
    /\ rendered = NoData
    /\ built = NoBuilt

\* the request's filter model has one field
OneField == get_filter_model(request).t = "obj" /\ Len(get_filter_model(request).items) = 1
TheField == get_filter_model(request).items[1].field
TheCond == get_filter_model(request).items[1].cond

\* AgGridFilterBackend.build_filter_query(filter_model)
BuildFilterQuery ==
    /\ pc = "idle"
    /\ LET r == build_filter_query(get_filter_model(request).items)
       IN  built' = Built("build_filter_query", r.raised, r.none, r.q, <<>>)
    /\ pc' = "built"
    /\ UNCHANGED <<db, cfg, request, queryset, view, paginator, page, response, rendered>>

\* AgGridFilterBackend._build_text_filter(field, filter_condition)
BuildTextFilter ==
    /\ pc = "idle"
    /\ OneField
    /\ built' = Built("_build_text_filter", FALSE, FALSE,
                      _build_text_filter(convert_field_name(TheField), TheCond), <<>>)
    /\ pc' = "built"
    /\ UNCHANGED <<db, cfg, request, queryset, view, paginator, page, response, rendered>>

\* AgGridFilterBackend._build_number_filter(field, filter_condition)
BuildNumberFilter ==
    /\ pc = "idle"
    /\ OneField
    /\ built' = Built("_build_number_filter", FALSE, FALSE,
                      _build_number_filter(convert_field_name(TheField), TheCond), <<>>)
    /\ pc' = "built"
    /\ UNCHANGED <<db, cfg, request, queryset, view, paginator, page, response, rendered>>

\* AgGridFilterBackend._build_date_filter(field, filter_condition)
BuildDateFilter ==
    /\ pc = "idle"
    /\ OneField
    /\ built' = Built("_build_date_filter", FALSE, FALSE,
                      _build_date_filter(convert_field_name(TheField), TheCond), <<>>)
    /\ pc' = "built"
    /\ UNCHANGED <<db, cfg, request, queryset, view, paginator, page, response, rendered>>

\* AgGridFilterBackend._build_set_filter(field, filter_condition)
BuildSetFilter ==
    /\ pc = "idle"
    /\ OneField
    /\ built' = Built("_build_set_filter", FALSE, FALSE,
                      _build_set_filter(convert_field_name(TheField), TheCond), <<>>)
    /\ pc' = "built"
    /\ UNCHANGED <<db, cfg, request, queryset, view, paginator, page, response, rendered>>

\* AgGridFilterBackend._build_boolean_filter(field, filter_condition)
BuildBooleanFilter ==
    /\ pc = "idle"
    /\ OneField
    /\ built' = Built("_build_boolean_filter", FALSE, FALSE,
                      _build_boolean_filter(convert_field_name(TheField), TheCond), <<>>)
    /\ pc' = "built"
    /\ UNCHANGED <<db, cfg, request, queryset, view, paginator, page, response, rendered>>

\* AgGridFilterBackend.build_ordering(sort_model)
BuildOrdering ==
    /\ pc = "idle"
    /\ LET r == build_ordering(get_sort_model(request))
       IN  built' = Built("build_ordering", r.raised, FALSE, EmptyQ, r.ordering)
    /\ pc' = "built"
    /\ UNCHANGED <<db, cfg, request, queryset, view, paginator, page, response, rendered>>

\* the sorting step of filter_queryset, on the ordering build_ordering gave
SortQueryset ==
    /\ pc = "built"
    /\ built.op = "build_ordering"
    /\ LET r == ApplySorting(request, queryset)
       IN  /\ queryset' = r.rows
           /\ pc' = IF r.raised THEN "failed" ELSE "sorted"
    /\ UNCHANGED <<db, cfg, built, request, view, paginator, page, response, rendered>>

NextBuild ==
    \/ BuildFilterQuery
    \/ BuildTextFilter
    \/ BuildNumberFilter
    \/ BuildDateFilter
    \/ BuildSetFilter
    \/ BuildBooleanFilter
    \/ BuildOrdering
    \/ SortQueryset

SpecBuild == InitBuild /\ [][NextBuild]_vars

----------------------------------------------------------------------------
(* SpecApply: apply_filters called on a filter model, a queryset and the   *)
(* custom filters of a view, as filter_queryset and the tests call it.     *)

ApplyFields == {F_custom, F_o_n, F_n, F_a}

ApplyConds ==
    {TextCond(S_contains, Str(S_a)), TextCond(S_equals, Str(S_x)),
     NumberCond(S_lessThan, Num(2), Absent),
     Cond(Str(S_x), Str(S_contains), Str(S_a), Absent, Absent, Absent, Absent)}

ApplyItems == {Item(f, c) : f \in ApplyFields, c \in ApplyConds}

\* no model, and the models of one field and of two different fields
ApplyFilterModels ==
    {JNull}
    \cup {JObj(<<i>>) : i \in ApplyItems}
    \cup {JObj(<<p[1], p[2]>>) :
             p \in {pr \in ApplyItems \X ApplyItems : pr[1].field # pr[2].field}}

\* a view without get_aggrid_custom_filters, and views whose dict has one
\* key, a plain or a dotted one, for a function that returns the queryset
\* or a part of it
ApplyConfigs ==
    {BaseConfig}
    \cup {[BaseConfig EXCEPT !.custom = TRUE, !.custom_key = k, !.custom_function = f] :
             k \in {F_custom, F_o_n},
             f \in {"filter_custom_field", "filter_custom_field_by_name"}}

InitApply ==
    /\ db = Table
    /\ cfg \in ApplyConfigs
    /\ pc = "idle"
    /\ request \in {Request(NoParam, IF fm = JNull THEN NoJson ELSE Json(fm), NoJson,
                            NoParam, NoParam, NoParam) : fm \in ApplyFilterModels}
    /\ queryset \in Incoming
    /\ view = NewView(cfg.pagination_class)
    /\ paginator = NewPaginator
    /\ page = [k |-> "none", rows |-> <<>>]
    /\ response = NoData
    /\ rendered = NoData
    /\ built = NoBuilt

\* AgGridFilterBackend.apply_filters(filter_model, queryset, custom_filters,
\* request, view)
ApplyFiltersCall ==
    /\ pc = "idle"
    /\ LET r == apply_filters(get_filter_model(request), queryset, get_custom_filters(cfg))
       IN  /\ built' = [Built("apply_filters", r.raised, FALSE, EmptyQ, <<>>)
                           EXCEPT !.calls = r.calls]
           /\ queryset' = r.rows
           /\ pc' = IF r.raised THEN "failed" ELSE "filtered"
    /\ UNCHANGED <<db, cfg, request, view, paginator, page, response, rendered>>

NextApply == ApplyFiltersCall

SpecApply == InitApply /\ [][NextApply]_vars

----------------------------------------------------------------------------
(* SpecConvert: convert_field_name called on a field name, and once more   *)
(* on what it returned.  built.ordering holds the name and the results.    *)

NameChars == {"n", ".", "_"}

FieldNames == UNION {[1..k -> NameChars] : k \in 0..MaxNameLen}

InitConvert ==
    /\ db = Table
    /\ cfg = BaseConfig
    /\ pc = "idle"
    /\ request = NoRequest
    /\ queryset = Table
    /\ view = NewView(cfg.pagination_class)
    /\ paginator = NewPaginator
    /\ page = [k |-> "none", rows |-> <<>>]
    /\ response = NoData
    /\ rendered = NoData
    /\ built \in {[NoBuilt EXCEPT !.ordering = <<name>>] : name \in FieldNames}

\* AgGridFilterBackend.convert_field_name(field_name)
ConvertFieldName ==
    /\ pc = "idle"
    /\ built' = [built EXCEPT !.op = "convert_field_name",
                              !.ordering = @ \o <<convert_field_name(@[1])>>]
    /\ pc' = "converted"
    /\ UNCHANGED <<db, cfg, request, queryset, view, paginator, page, response, rendered>>

\* convert_field_name on a name it returned
ConvertAgain ==
    /\ pc = "converted"
    /\ built' = [built EXCEPT !.ordering = @ \o <<convert_field_name(@[2])>>]
    /\ pc' = "reconverted"
    /\ UNCHANGED <<db, cfg, request, queryset, view, paginator, page, response, rendered>>

NextConvert == ConvertFieldName \/ ConvertAgain

SpecConvert == InitConvert /\ [][NextConvert]_vars

----------------------------------------------------------------------------
(* SpecPaginate: AgGridPagination called as its tests call it, on a list   *)
(* of rows, a request and a view: paginate_queryset and then               *)
(* get_paginated_response, or get_paginated_response on a paginator that   *)
(* only had count and total_count assigned; and AgGridRenderer.render on   *)
(* the same rows and request for a view without a paginator.               *)

WideRowParams == {NoParam} \cup {Param(IntStr(i)) : i \in WideRowIndexes}

PaginateRequests ==
    {Request(f, NoJson, NoJson, s, e, NoParam) :
        f \in {NoParam, Param(S_aggrid)}, s \in WideRowParams, e \in WideRowParams}

PaginateConfigs ==
    {[BaseConfig EXCEPT !.orm = o, !.page_size = ps] : o \in BOOLEAN, ps \in {0, 2}}

InitPaginate ==
    /\ db = Table
    /\ cfg \in PaginateConfigs
    /\ pc \in {"paginate", "respond"}
    /\ request \in PaginateRequests
    /\ queryset \in RowLists
    /\ view \in {NewView(cfg.pagination_class),
                 [NewView(cfg.pagination_class) EXCEPT
                     !._ag_grid_total_count = Set(Len(Table)),
                     !._ag_grid_filtered_count = Set(Len(queryset))]}
    /\ paginator = IF pc = "paginate" THEN NewPaginator
                   ELSE [NewPaginator EXCEPT !.count = Set(Len(queryset)),
                                             !.total_count = Set(Len(Table))]
    /\ page = IF pc = "paginate" THEN [k |-> "none", rows |-> <<>>]
              ELSE [k |-> "list", rows |-> queryset]
    /\ response = NoData
    /\ rendered = NoData
    /\ built = NoBuilt

\* AgGridRenderer.render(rows, renderer_context) with the request and a view
\* that has no paginator attribute
RenderList ==
    /\ pc \in {"respond", "render"}
    /\ rendered = NoData
    /\ rendered' = render(ListData(queryset),
                          Context(TRUE, TRUE, view, FALSE, TRUE, request))
    /\ UNCHANGED <<db, cfg, built, pc, request, queryset, view, paginator, page, response>>

NextPaginate == PaginateQueryset \/ GetPaginatedResponse \/ RenderList

SpecPaginate == InitPaginate /\ [][NextPaginate]_vars

----------------------------------------------------------------------------
(* SpecCalls: initial and finalize_response of AgGridAutoPaginationMixin   *)
(* called on one view in any order.                                        *)

\* AgGridAutoPaginationMixin.initial(request), whatever was called before
InitialAnyTime ==
    /\ \E req \in DispatchRequests :
          /\ request' = req
          /\ view' = initial(view, req, cfg)
    /\ pc' = "handling"
    /\ UNCHANGED <<db, cfg, built, queryset, paginator, page, response, rendered>>

\* AgGridAutoPaginationMixin.finalize_response(request, response), whatever
\* was called before
FinalizeAnyTime ==
    /\ view' = finalize_response(view)
    /\ pc' = "idle"
    /\ UNCHANGED <<db, cfg, built, request, queryset, paginator, page, response, rendered>>

NextCalls == InitialAnyTime \/ FinalizeAnyTime

SpecCalls == InitDispatch /\ [][NextCalls]_vars

----------------------------------------------------------------------------
(* SpecShapes: filter_queryset on requests whose filter and sort           *)
(* parameters are JSON of the expected shape, JSON of another shape, or no *)
(* JSON.                                                                   *)

\* a filter whose field value is no object
FM_scalar == JObj(<<Item(F_n, NotAnObject)>>)

\* a sort that is an object, and one whose item is no object
SM_object == JObj(<<Item(F_n, NotAnObject)>>)
SM_scalar == JList(<<[SortItem(Absent, Absent) EXCEPT !.t = "num"]>>)

ShapeRequests ==
    {Request(f, fm, sm, NoParam, NoParam, NoParam) :
        f \in {NoParam, Param(S_aggrid)},
        fm \in {NoJson, InvalidJson, Json(FM_text), Json(FM_list), Json(FM_scalar)},
        sm \in {NoJson, InvalidJson, Json(SM_desc), Json(SM_object), Json(SM_scalar)}}

InitShapes ==
    /\ db = Table
    /\ cfg \in {[BaseConfig EXCEPT !.has_get_queryset = g, !.orm = o] :
                   g \in BOOLEAN, o \in BOOLEAN}
    /\ pc = "filter"
    /\ request \in ShapeRequests
    /\ queryset \in Incoming
    /\ view = NewView(cfg.pagination_class)
    /\ paginator = NewPaginator
    /\ page = [k |-> "none", rows |-> <<>>]
    /\ response = NoData
    /\ rendered = NoData
    /\ built = NoBuilt

NextShapes == FilterQueryset

SpecShapes == InitShapes /\ [][NextShapes]_vars

----------------------------------------------------------------------------
(* The properties.  They are stated on the requests and the rows           *)
(* themselves, not through the operators above.                            *)

\* two strings are equal when the case of their letters is ignored
SameIgnoringCase(s, u) ==
    /\ Len(s) = Len(u)
    /\ \A i \in 1..Len(s) :
          \/ s[i] = u[i]
          \/ \E j \in 1..26 : {s[i], u[i]} = {UpperCase[j], LowerCase[j]}

\* the request is one for ag-grid: format is aggrid in any letter case, or
\* one of filter, sort, startRow, endRow is there
ForAgGrid(req) ==
    \/ req.format.present /\ SameIgnoringCase(req.format.s, S_aggrid)
    \/ req.filter.present
    \/ req.sort.present
    \/ req.startRow.present
    \/ req.endRow.present

\* the texts of the row parameters that are integers, and their values
IntegerTexts == {IntStr(i) : i \in WideRowIndexes} \cup {<<" ", "1">>}
IntegerValue(s) ==
    IF s = <<" ", "1">> THEN 1 ELSE CHOOSE i \in WideRowIndexes : IntStr(i) = s
IsIntegerParam(prm) == prm.present /\ prm.s \in IntegerTexts

\* the items of rows at the positions from .. to - 1, counted from 0
Positions(rows, from, to) ==
    [i \in 1..(IF to > from THEN to - from ELSE 0) |-> rows[from + i]]

Min(a, b) == IF a < b THEN a ELSE b

RowSet(rows) == {rows[i] : i \in 1..Len(rows)}

\* C6: is_aggrid_request, of the filter backend and of the pagination class
\* alike, is true exactly when format is aggrid in any letter case or one of
\* filter, sort, startRow, endRow is present; the filter backend stores its
\* counts on the view for exactly these requests.
C6_IsAgGridRequest ==
    pc # "idle" =>
        /\ is_aggrid_request(request) = ForAgGrid(request)
        /\ is_aggrid_request_p(request) = ForAgGrid(request)
        /\ (pc # "filter" => view._ag_grid_total_count.set = ForAgGrid(request))

\* a request with format=AgGrid and no other parameter took the ag-grid path
C6_Witness ==
    /\ pc = "paginate"
    /\ request = Request(Param(S_AgGrid), NoJson, NoJson, NoParam, NoParam, NoParam)
    /\ view._ag_grid_total_count.set

\* C7: for a request that is not an ag-grid request filter_queryset returns
\* the incoming queryset as it is and leaves the view as it was.
C7_NonAgGridUntouched ==
    [][(pc = "filter" /\ ~ForAgGrid(request)) =>
          /\ pc' = "paginate"
          /\ queryset' = queryset
          /\ view' = view]_vars

\* a format=json request went through the filter backend with a narrowed
\* queryset, and the view carries no count
C7_Witness ==
    /\ pc = "paginate"
    /\ request = Request(Param(S_json), NoJson, NoJson, NoParam, NoParam, NoParam)
    /\ queryset = Tail(Table)
    /\ ~view._ag_grid_total_count.set
    /\ ~view._ag_grid_filtered_count.set

\* the request without its row range
WithoutRange(req) == [req EXCEPT !.startRow = NoParam, !.endRow = NoParam]

\* the request without its row range and without its sort model
WithoutSort(req) == [WithoutRange(req) EXCEPT !.sort = NoJson]

StartRow(req) == IntegerValue(req.startRow.s)
EndRow(req) == IntegerValue(req.endRow.s)
HasRange(req) == IsIntegerParam(req.startRow) /\ IsIntegerParam(req.endRow)

\* the handler failed in the filter backend, before it paginated
FailedInFilter == pc = "failed" /\ page.k = "none"

\* C1: for a request with startRow and endRow non-negative integers and no
\* format, on a view with get_queryset, filter_queryset, paginate_queryset
\* and get_paginated_response yield the envelope: totalCount the count of
\* get_queryset(), rowCount the count of the filtered rows, rows the
\* filtered, sorted rows at startRow .. min(endRow, rowCount) - 1.  The
\* JSON renderer emits it as it is.
C1_Envelope ==
    (/\ HasRange(request)
     /\ StartRow(request) >= 0
     /\ EndRow(request) >= 0
     /\ ~request.format.present
     /\ cfg.has_get_queryset) =>
        /\ pc = "failed" => FailedInFilter
        /\ pc \in {"render", "done"} =>
              response = Envelope(Len(queryset), Len(db),
                                  Positions(queryset, StartRow(request),
                                            Min(EndRow(request), Len(queryset))))
        /\ pc \in {"paginate", "respond", "render", "done"} =>
              /\ RowSet(queryset) =
                    RowSet(apply_filters(get_filter_model(request), queryset,
                                         get_custom_filters(cfg)).rows)
              /\ queryset = ApplySorting(request, queryset).rows
        /\ pc = "done" => rendered = response

\* rows 1 and 2 pass the filter, sort as 2, 1, and the range 1..2 is row 1
C1_Witness ==
    /\ pc = "done"
    /\ request = Request(NoParam, Json(FM_text), Json(SM_desc), Param(IntStr(1)),
                         Param(IntStr(MaxRows + 1)), NoParam)
    /\ cfg.has_get_queryset
    /\ rendered = Envelope(2, MaxRows, <<TableRow(1)>>)

\* C3 as stated: for integer startRow >= 0 and any integer endRow,
\* paginate_queryset returns the empty list when startRow >= n and the items
\* at startRow .. min(endRow, n) - 1 otherwise, and raises nothing.
C3_AnyEndRow ==
    [][(pc = "paginate" /\ HasRange(request) /\ StartRow(request) >= 0) =>
          page' = [k |-> "list",
                   rows |-> IF StartRow(request) >= Len(queryset) THEN <<>>
                            ELSE Positions(queryset, StartRow(request),
                                           Min(EndRow(request), Len(queryset)))]]_vars

\* C3, amended: the same for integer startRow >= 0 and endRow >= 0.
C3_Slice ==
    [][(/\ pc = "paginate"
        /\ HasRange(request)
        /\ StartRow(request) >= 0
        /\ EndRow(request) >= 0) =>
          /\ page' = [k |-> "list",
                      rows |-> IF StartRow(request) >= Len(queryset) THEN <<>>
                               ELSE Positions(queryset, StartRow(request),
                                              Min(EndRow(request), Len(queryset)))]
          /\ pc' = "respond"]_vars

\* startRow 1 and an endRow behind the last row: the rows from the second on
C3_Witness ==
    /\ pc = "respond"
    /\ request.startRow = Param(IntStr(1))
    /\ request.endRow = Param(IntStr(MaxRows + 1))
    /\ ~request.filter.present
    /\ ~request.sort.present
    /\ queryset = Table
    /\ page = [k |-> "list", rows |-> Tail(Table)]

\* the page size the default pagination works with: the page_size parameter
\* when it is a positive integer, else the configured one (0: none)
PageSizeInEffect ==
    IF request.page_size = Param(IntStr(1)) THEN 1 ELSE cfg.page_size

\* C8: in an ag-grid request whose startRow or endRow is missing or no
\* integer, paginate_queryset answers as the default page-number pagination
\* does (None without a page size, the first page with one) and leaves
\* count, total_count, start_row, end_row of the paginator and the view as
\* they were.
C8_NoRangeFallsBack ==
    [][(pc = "paginate" /\ ForAgGrid(request) /\ ~HasRange(request)) =>
          /\ page' = IF PageSizeInEffect = 0 THEN [k |-> "none", rows |-> <<>>]
                     ELSE [k |-> "list",
                           rows |-> Positions(queryset, 0,
                                              Min(PageSizeInEffect, Len(queryset)))]
          /\ paginator'.count = paginator.count
          /\ paginator'.total_count = paginator.total_count
          /\ paginator'.start_row = paginator.start_row
          /\ paginator'.end_row = paginator.end_row
          /\ view' = view]_vars

\* startRow is no integer, no page size: None was returned, the paginator
\* holds no count, the view holds the counts of the filter backend
C8_Witness ==
    /\ pc = "render"
    /\ request.startRow = Param(S_x)
    /\ request.endRow = Param(IntStr(2))
    /\ cfg.page_size = 0
    /\ page.k = "none"
    /\ paginator.count = Unset
    /\ paginator.start_row = Unset
    /\ view._ag_grid_filtered_count = Set(MaxRows)

\* C9: get_paginated_response answers a request with format=aggrid with the
\* envelope {rowCount: count, totalCount: total_count, rows: data}, as it
\* answers a request without format.
C9_EnvelopeForFormatAgGrid ==
    (/\ pc \in {"render", "done"}
     /\ paginator.request.set
     /\ paginator.request.v.format = Param(S_aggrid)
     /\ paginator.count.set
     /\ paginator.total_count.set) =>
        response = Envelope(paginator.count.v, paginator.total_count.v, page.rows)

\* C4: initial sets pagination_class to aggrid_pagination_class when the
\* format parameter is "aggrid", whatever class the view has; for any other
\* request to standard_pagination_class when there is one, else to the
\* class the view had.
C4_InitialSelectsClass ==
    pc = "handling" =>
        view.pagination_class =
            IF request.format = Param(S_aggrid) THEN aggrid_pagination_class
            ELSE IF cfg.standard_pagination_class # "None"
            THEN cfg.standard_pagination_class
            ELSE cfg.pagination_class

\* a view without a pagination class serves an ag-grid request
C4_Witness ==
    /\ pc = "handling"
    /\ request.format = Param(S_aggrid)
    /\ cfg.pagination_class = "None"
    /\ view.pagination_class = "AgGridPagination"

\* C5: with every request handled as initial followed by
\* finalize_response, pagination_class after finalize_response is the class
\* the view had before its first initial.
C5_ClassRestored ==
    pc = "idle" => view.pagination_class = cfg.pagination_class

\* an ag-grid request has been served on a view with a
\* standard_pagination_class
C5_Witness ==
    /\ pc = "idle"
    /\ request.format = Param(S_aggrid)
    /\ cfg.standard_pagination_class = "PageNumberPagination"
    /\ cfg.pagination_class = "LimitOffsetPagination"
    /\ view._original_pagination_class = "LimitOffsetPagination"
    /\ view.pagination_class = "LimitOffsetPagination"

\* C10: render emits a dict with rows, rowCount and totalCount as it is,
\* whatever counts the view holds and whatever startRow and endRow the
\* request carries; rendering what render emitted changes nothing.
C10_EnvelopeUnchanged ==
    (pc = "done" /\ response.k = "envelope") => rendered = response

\* an envelope whose counts differ from the view's, a row range that would
\* cut it, and no paginator on the view
C10_Witness ==
    /\ pc = "done"
    /\ response = Envelope(2, MaxRows + 2, Table)
    /\ rendered = response
    /\ view._ag_grid_filtered_count = Set(1)
    /\ view._ag_grid_total_count = Set(1)
    /\ request.startRow = Param(IntStr(1))
    /\ request.endRow = Param(IntStr(2))
    /\ ~cfg.has_paginator
    /\ cfg.context = "full"

\* the view the renderer context holds, if it holds one
ViewInContext == cfg.context = "full"

\* the row range the renderer sees: the context holds a request whose
\* startRow and endRow are integers
RangeInContext == cfg.context = "full" /\ HasRange(request)

\* rows is a run of consecutive items of list
IsRunOf(rows, list) ==
    \E i \in 1..(Len(list) + 1), j \in 0..Len(list) : rows = SubSeq(list, i, j)

CountBeforeSlicing ==
    IF response.k = "results"
    THEN (IF response.count.set THEN response.count.v
          ELSE IF ViewInContext /\ view._ag_grid_filtered_count.set
          THEN view._ag_grid_filtered_count.v ELSE 0)
    ELSE (IF /\ ViewInContext
             /\ view._ag_grid_filtered_count.set
             /\ view._ag_grid_filtered_count.v # 0
          THEN view._ag_grid_filtered_count.v ELSE Len(response.rows))

\* C12: render emits the rows at startRow .. min(endRow, number of rows) - 1
\* when the view has no paginator and startRow and endRow are integers, and
\* all rows otherwise; rowCount is the count determined before slicing.
C12_RendererSlices ==
    (pc = "done" /\ response.k \in {"list", "results"}) =>
        /\ rendered.k = "envelope"
        /\ rendered.rows =
              IF RangeInContext /\ ~cfg.has_paginator
              THEN Positions(response.rows, StartRow(request),
                             Min(EndRow(request), Len(response.rows)))
              ELSE response.rows
        /\ rendered.rowCount = Set(CountBeforeSlicing)


\* C13: AgGridPaginationMixin.get_paginated_response returns the data as it
\* is when the view's request has format aggrid in any letter case; else,
\* and on a view without request, {rowCount: _ag_grid_filtered_count,
\* totalCount: _ag_grid_total_count, rows: data}, a count that is not set
\* being 0.
C13_MixinResponse ==
    pc = "done" =>
        response =
            IF /\ cfg.has_request
               /\ request.format.present
               /\ SameIgnoringCase(request.format.s, S_aggrid)
            THEN ListData(page.rows)
            ELSE Envelope(IF view._ag_grid_filtered_count.set
                          THEN view._ag_grid_filtered_count.v ELSE 0,
                          IF view._ag_grid_total_count.set
                          THEN view._ag_grid_total_count.v ELSE 0,
                          page.rows)

\* a view without request and without counts, asked with format=AGGRID
C13_Witness ==
    /\ pc = "done"
    /\ ~cfg.has_request
    /\ request.format = Param(S_AGGRID)
    /\ view._ag_grid_filtered_count = Unset
    /\ view._ag_grid_total_count = Unset
    /\ response = Envelope(0, 0, Table)


\* the parameter carries no model: it is absent, empty, or no valid JSON
HasNoModel(j) == ~j.present \/ j.text \in {"empty", "invalid"}

\* a filter or a sort parameter of the request is no valid JSON
HasInvalidJson(req) == req.filter = InvalidJson \/ req.sort = InvalidJson

\* C14 as stated: with a filter or sort parameter that is no valid JSON and
\* no model in the other, filter_queryset raises nothing, returns the
\* queryset as it is and stores both counts, both the unfiltered count.
C14_BothCountsEqual ==
    [][(/\ pc = "filter"
        /\ HasInvalidJson(request)
        /\ HasNoModel(request.filter)
        /\ HasNoModel(request.sort)) =>
          /\ pc' = "paginate"
          /\ queryset' = queryset
          /\ view'._ag_grid_total_count = Set(Len(queryset))
          /\ view'._ag_grid_filtered_count = Set(Len(queryset))]_vars

\* C14, amended: the counts stored are the count of get_queryset() (of the
\* incoming queryset without get_queryset) and the count of the incoming
\* queryset.  An invalid filter leaves the rows and the filtered count to
\* the incoming queryset, an invalid sort leaves the order to the filter.
C14_InvalidJsonIgnored ==
    [][(pc = "filter" /\ HasInvalidJson(request)) =>
          /\ (request.filter = InvalidJson /\ pc' = "paginate") =>
                /\ Len(queryset') = Len(queryset)
                /\ RowSet(queryset') = RowSet(queryset)
                /\ view'._ag_grid_filtered_count = Set(Len(queryset))
          /\ (request.sort = InvalidJson /\ pc' = "paginate") =>
                queryset' = apply_filters(get_filter_model(request), queryset,
                                          get_custom_filters(cfg)).rows
          /\ (HasNoModel(request.filter) /\ HasNoModel(request.sort)) =>
                /\ pc' = "paginate"
                /\ queryset' = queryset
                /\ view'._ag_grid_total_count =
                      Set(Len(IF cfg.has_get_queryset THEN db ELSE queryset))
                /\ view'._ag_grid_filtered_count = Set(Len(queryset))]_vars

\* both parameters are no JSON, on a view whose queryset an earlier filter
\* backend has narrowed
C14_Witness ==
    /\ pc = "paginate"
    /\ request.filter = InvalidJson
    /\ request.sort = InvalidJson
    /\ cfg.has_get_queryset
    /\ queryset = Tail(Table)
    /\ view._ag_grid_total_count = Set(MaxRows)
    /\ view._ag_grid_filtered_count = Set(MaxRows - 1)


\* a filterType that build_filter_query knows
Recognised(cond) ==
    cond.filterType \in {Str(S_text), Str(S_number), Str(S_date), Str(S_set),
                         Str(S_boolean)}

\* the field name in the query layer's notation
Converted(f) == IF f = F_o_n THEN F_o__n ELSE f

\* the condition the builder of the field's filterType gives
FieldCondition(item) ==
    CASE item.cond.filterType = Str(S_text) ->
            _build_text_filter(Converted(item.field), item.cond)
      [] item.cond.filterType = Str(S_number) ->
            _build_number_filter(Converted(item.field), item.cond)
      [] item.cond.filterType = Str(S_date) ->
            _build_date_filter(Converted(item.field), item.cond)
      [] item.cond.filterType = Str(S_set) ->
            _build_set_filter(Converted(item.field), item.cond)
      [] item.cond.filterType = Str(S_boolean) ->
            _build_boolean_filter(Converted(item.field), item.cond)
      [] OTHER -> EmptyQ

\* the conjunction of the conditions of the recognised fields, in model order
RECURSIVE RecognisedConditions(_)
RecognisedConditions(items) ==
    IF items = <<>> THEN EmptyQ
    ELSE (IF Recognised(items[1].cond) THEN FieldCondition(items[1]) ELSE EmptyQ)
         \o RecognisedConditions(Tail(items))

\* C16: build_filter_query returns None for the empty model and for a model
\* without a field of a recognised filterType; else the AND of one
\* condition per recognised field, the other fields contributing nothing.
C16_BuildFilterQuery ==
    built.op = "build_filter_query" =>
        LET items == get_filter_model(request).items
        IN  /\ ~built.raised
            /\ built.none = (\A i \in 1..Len(items) : ~Recognised(items[i].cond))
            /\ built.q = IF built.none THEN EmptyQ ELSE RecognisedConditions(items)

\* a number field, a field of an unknown filterType and a dotted text field
C16_Witness ==
    /\ built.op = "build_filter_query"
    /\ Len(get_filter_model(request).items) = 3
    /\ ~built.none
    /\ built.q = Lit(F_a, "lt", Num(2)) \o Lit(F_o__n, "exact", Str(S_x))

\* one literal of a condition
One(neg, field, lookup, value) ==
    <<[neg |-> neg, field |-> field, lookup |-> lookup, value |-> value]>>

\* C17: for a text condition with a non-empty value v on field f: equals
\* gives f exact v, notEqual NOT(f exact v), contains f icontains v,
\* notContains NOT(f icontains v), startsWith f istartswith v, endsWith
\* f iendswith v, and any other or missing type the unconstrained condition.
C17_TextFilter ==
    (/\ built.op = "_build_text_filter"
     /\ TheCond.filter.k = "str"
     /\ TheCond.filter.s # <<>>) =>
        LET f == Converted(TheField)
            v == TheCond.filter
            type == TheCond.type
        IN  built.q =
                CASE type = Str(S_equals) -> One(FALSE, f, "exact", v)
                  [] type = Str(S_notEqual) -> One(TRUE, f, "exact", v)
                  [] type = Str(S_contains) -> One(FALSE, f, "icontains", v)
                  [] type = Str(S_notContains) -> One(TRUE, f, "icontains", v)
                  [] type = Str(S_startsWith) -> One(FALSE, f, "istartswith", v)
                  [] type = Str(S_endsWith) -> One(FALSE, f, "iendswith", v)
                  [] OTHER -> <<>>

\* notContains "a" on the dotted field
C17_Witness ==
    /\ built.op = "_build_text_filter"
    /\ TheField = F_o_n
    /\ TheCond.type = Str(S_notContains)
    /\ built.q = One(TRUE, F_o__n, "icontains", Str(S_a))


\* C18: a number condition is valueless only when filter is null or missing
\* (0 and "" are compared); equals, notEqual, lessThan, lessThanOrEqual,
\* greaterThan, greaterThanOrEqual give f = v, NOT(f = v), f < v, f <= v,
\* f > v, f >= v; inRange gives f >= filter AND f <= filterTo when filterTo
\* is not null, and the unconstrained condition when filterTo is missing.
C18_NumberFilter ==
    (built.op = "_build_number_filter" /\ TheCond.filterType = Str(S_number)) =>
        LET f == Converted(TheField)
            v == TheCond.filter
            to == TheCond.filterTo
            type == TheCond.type
        IN  IF v \in {Absent, None} THEN built.q = <<>>
            ELSE built.q =
                CASE type = Str(S_equals) -> One(FALSE, f, "eq", v)
                  [] type = Str(S_notEqual) -> One(TRUE, f, "eq", v)
                  [] type = Str(S_lessThan) -> One(FALSE, f, "lt", v)
                  [] type = Str(S_lessThanOrEqual) -> One(FALSE, f, "lte", v)
                  [] type = Str(S_greaterThan) -> One(FALSE, f, "gt", v)
                  [] type = Str(S_greaterThanOrEqual) -> One(FALSE, f, "gte", v)
                  [] type = Str(S_inRange) /\ to \notin {Absent, None} ->
                        One(FALSE, f, "gte", v) \o One(FALSE, f, "lte", to)
                  [] OTHER -> <<>>

\* the value 0 in a range up to 3
C18_Witness ==
    /\ built.op = "_build_number_filter"
    /\ TheCond.type = Str(S_inRange)
    /\ TheCond.filter = Num(0)
    /\ built.q = One(FALSE, Converted(TheField), "gte", Num(0))
                 \o One(FALSE, Converted(TheField), "lte", Num(3))

\* a condition of its filterType that carries no value
Valueless(cond) ==
    \/ cond.filterType = Str(S_text) /\ cond.filter \in {Absent, Str(<<>>)}
    \/ cond.filterType = Str(S_date) /\ cond.dateFrom \in {Absent, Str(<<>>)}
    \/ cond.filterType = Str(S_set) /\ cond.values \in {Absent, List(<<>>)}
    \/ cond.filterType = Str(S_boolean) /\ cond.filter \in {Absent, None}

\* the builder of a filterType
BuilderOf(filterType) ==
    CASE filterType = Str(S_text) -> "_build_text_filter"
      [] filterType = Str(S_date) -> "_build_date_filter"
      [] filterType = Str(S_set) -> "_build_set_filter"
      [] filterType = Str(S_boolean) -> "_build_boolean_filter"
      [] OTHER -> "none"

\* C19: a text condition with a missing or empty filter, a date condition
\* with a missing or empty dateFrom, a set condition with a missing or empty
\* values list and a boolean condition with a missing or null filter give
\* the unconstrained condition, and build_filter_query of a model of one
\* such field returns the empty condition, not None.
C19_ValuelessUnconstrained ==
    (/\ built.op # "none"
     /\ OneField
     /\ Valueless(TheCond)) =>
        /\ built.op = BuilderOf(TheCond.filterType) => built.q = <<>>
        /\ built.op = "build_filter_query" =>
              ~built.raised /\ ~built.none /\ built.q = <<>>

\* build_filter_query on a set condition with the empty list of values
C19_Witness ==
    /\ built.op = "build_filter_query"
    /\ OneField
    /\ TheCond.filterType = Str(S_set)
    /\ TheCond.values = List(<<>>)
    /\ ~built.none
    /\ built.q = <<>>

\* the sort item names a column and a direction
Sortable(item) ==
    /\ item.colId.k = "str" /\ item.colId.s # <<>>
    /\ item.sort.k = "str" /\ item.sort.s # <<>>

\* the ordering fields of the sortable items, in order
RECURSIVE ExpectedOrdering(_)
ExpectedOrdering(items) ==
    IF items = <<>> THEN <<>>
    ELSE (IF Sortable(items[1])
          THEN << (IF items[1].sort.s = S_desc THEN <<"-">> ELSE <<>>)
                  \o Converted(items[1].colId.s) >>
          ELSE <<>>)
         \o ExpectedOrdering(Tail(items))

\* the sort model is null, or a list of items whose colId is a string when
\* they have one
PlainSortModel(sm) ==
    \/ sm = JNull
    \/ /\ sm.t = "list"
       /\ \A i \in 1..Len(sm.items) :
             /\ sm.items[i].t = "obj"
             /\ sm.items[i].colId.k \in {"absent", "none", "str"}

\* C20: build_ordering gives one field per sort item with a colId and a
\* sort, in order, dots turned into double underscores, prefixed with '-'
\* exactly when sort is 'desc'; the other items are skipped; an empty or
\* null model gives the empty list, and the queryset is then left in its
\* order.
C20_BuildOrdering ==
    (built.op = "build_ordering" /\ PlainSortModel(get_sort_model(request))) =>
        LET sm == get_sort_model(request)
        IN  /\ ~built.raised
            /\ built.ordering = IF sm = JNull THEN <<>> ELSE ExpectedOrdering(sm.items)
            /\ (pc = "sorted" /\ built.ordering = <<>>) => queryset = db

\* a descending column and a dotted ascending one
C20_Witness ==
    /\ built.op = "build_ordering"
    /\ built.ordering = << <<"-">> \o F_a, F_o__n >>
    /\ pc = "sorted"


\* the fields of the request's filter model
ModelItems ==
    IF get_filter_model(request).t = "obj" THEN get_filter_model(request).items ELSE <<>>

\* the names the view filters itself
CustomKeys == IF cfg.custom THEN {cfg.custom_key} ELSE {}

IsCustomItem(item) == item.field \in CustomKeys
IsStandardItem(item) == item.field \notin CustomKeys

\* the call the custom function of a field is owed
OwedCall(item, rows) ==
    [field |-> Converted(item.field), filter_condition |-> item.cond, queryset |-> rows]

\* C15: a field whose name as sent is a key of the custom filters is given
\* to the custom function alone, called with the converted name, the
\* condition and the current queryset, and what it returns is the queryset
\* from then on; the other fields make one standard filter, applied to that
\* queryset, and the standard logic never sees the custom field.
C15_CustomFilters ==
    [][ApplyFiltersCall =>
        LET custom == SelectSeq(ModelItems, IsCustomItem)
            others == SelectSeq(ModelItems, IsStandardItem)
            returned ==
                IF custom = <<>> THEN queryset
                ELSE CallCustom(cfg.custom_function, Converted(custom[1].field),
                                custom[1].cond, queryset).rows
            standard == RecognisedConditions(others)
        IN  /\ Len(custom) <= 1
            /\ built'.calls = IF custom = <<>> THEN <<>>
                              ELSE <<OwedCall(custom[1], queryset)>>
            /\ built'.raised = (\E i \in 1..Len(standard) : standard[i].field \notin Columns)
            /\ ~built'.raised =>
                  queryset' = IF standard = <<>> THEN returned
                              ELSE Distinct(Select(returned, standard))]_vars

\* a dotted custom field whose function keeps a part of the queryset, and a
\* standard field that narrows it further
C15_Witness ==
    /\ built.op = "apply_filters"
    /\ ~built.raised
    /\ Len(ModelItems) = 2
    /\ Len(built.calls) = 1
    /\ built.calls[1].field = F_o__n
    /\ IsStandardItem(ModelItems[1])
    /\ queryset # <<>>
    /\ Len(queryset) < Len(built.calls[1].queryset)
    /\ Len(queryset) < Len(CallCustom(cfg.custom_function, built.calls[1].field,
                                      built.calls[1].filter_condition,
                                      built.calls[1].queryset).rows)
    /\ Len(CallCustom(cfg.custom_function, built.calls[1].field,
                      built.calls[1].filter_condition,
                      built.calls[1].queryset).rows) < Len(built.calls[1].queryset)


\* the number of dots among the first i characters
DotsUpTo(name, i) == Cardinality({j \in 1..i : name[j] = "."})

\* C21: convert_field_name puts two underscores in the place of every dot
\* and keeps every other character, so a name without dots comes back as it
\* is, and converting a converted name changes nothing.
C21_ConvertFieldName ==
    built.op = "convert_field_name" =>
        LET name == built.ordering[1]
            converted == built.ordering[2]
        IN  /\ Len(converted) = Len(name) + DotsUpTo(name, Len(name))
            /\ \A i \in 1..Len(name) :
                  LET at == i + DotsUpTo(name, i - 1)
                  IN  IF name[i] = "."
                      THEN converted[at] = "_" /\ converted[at + 1] = "_"
                      ELSE converted[at] = name[i]
            /\ DotsUpTo(name, Len(name)) = 0 => converted = name
            /\ Len(built.ordering) = 3 => built.ordering[3] = converted

\* a name with two dots, converted twice
C21_Witness ==
    /\ built.op = "convert_field_name"
    /\ Len(built.ordering) = 3
    /\ DotsUpTo(built.ordering[1], Len(built.ordering[1])) = 2
    /\ Len(built.ordering[3]) = Len(built.ordering[1]) + 2


\* C22 as stated: paginate_queryset returns the empty list whenever startRow
\* is greater than endRow, for every pair of integers and every queryset.
C22_AnyPair ==
    [][(pc = "paginate" /\ HasRange(request) /\ StartRow(request) > EndRow(request)) =>
          page' = [k |-> "list", rows |-> <<>>]]_vars

\* C22, amended: paginate_queryset returns the empty list whenever startRow
\* is greater than endRow and endRow is not negative.
C22_StartBehindEnd ==
    [][(/\ pc = "paginate"
        /\ HasRange(request)
        /\ StartRow(request) > EndRow(request)
        /\ EndRow(request) >= 0) =>
          /\ page' = [k |-> "list", rows |-> <<>>]
          /\ pc' = "respond"]_vars

\* a range given backwards inside the queryset
C22_Witness ==
    /\ pc = "respond"
    /\ paginator.start_row.set
    /\ paginator.end_row.set
    /\ paginator.end_row.v >= 1
    /\ paginator.start_row.v > paginator.end_row.v
    /\ paginator.start_row.v < Len(queryset)
    /\ page = [k |-> "list", rows |-> <<>>]

\* C23: on a list-like queryset of n items, startRow = -k (1 <= k <= n) with
\* endRow >= n gives the last k items, and startRow = 0 with endRow = -k
\* gives all but the last k; the values are stored on the paginator as they
\* are and the default pagination is not asked.
C23_NegativeIndices ==
    [][(pc = "paginate" /\ HasRange(request) /\ ~cfg.orm) =>
          LET n == Len(queryset)
              s == StartRow(request)
              e == EndRow(request)
          IN  /\ (s < 0 /\ 0 - s <= n /\ e >= n) =>
                    /\ page' = [k |-> "list", rows |-> Positions(queryset, n + s, n)]
                    /\ paginator'.start_row = Set(s)
                    /\ paginator'.end_row = Set(e)
                    /\ paginator'.count = Set(n)
                    /\ ~paginator'.page.set
              /\ (s = 0 /\ e < 0 /\ 0 - e <= n) =>
                    /\ page' = [k |-> "list", rows |-> Positions(queryset, 0, n + e)]
                    /\ paginator'.start_row = Set(s)
                    /\ paginator'.end_row = Set(e)
                    /\ paginator'.count = Set(n)
                    /\ ~paginator'.page.set]_vars

\* startRow -2 on a list of at least three items: its last two
C23_Witness ==
    /\ pc = "respond"
    /\ ~cfg.orm
    /\ paginator.start_row = Set(0 - 2)
    /\ paginator.end_row.set
    /\ paginator.end_row.v >= Len(queryset)
    /\ Len(queryset) >= 3
    /\ page = [k |-> "list",
               rows |-> <<queryset[Len(queryset) - 1], queryset[Len(queryset)]>>]


\* C24: get_paginated_response returns a Response on a paginator that only
\* has count and total_count assigned, and on one whose paginate_queryset
\* took the default pagination and returned a page.
C24_NeverFails ==
    [][(/\ GetPaginatedResponse
        /\ \/ ~paginator.request.set /\ paginator.count.set /\ paginator.total_count.set
           \/ paginator.page.set /\ ~paginator.start_row.set) =>
          response'.k \in {"list", "envelope"}]_vars

\* C29: on the same rows and the same integer startRow and endRow, the rows
\* the renderer emits for a view without a paginator are the rows
\* paginate_queryset returns, empty when startRow is behind the last row.
C29_SameRows ==
    (/\ HasRange(request)
     /\ page.k = "list"
     /\ paginator.start_row.set
     /\ rendered.k = "envelope") =>
        rendered.rows = page.rows


\* C26: whatever the order of the initial and finalize_response calls on a
\* view, initial leaves in _original_pagination_class the class the view
\* was configured with, and finalize_response leaves the view on
\* AgGridPagination only when it was configured with it.
C26_OriginalKept ==
    [][/\ pc' = "handling" => view'._original_pagination_class = cfg.pagination_class
       /\ pc' = "idle" =>
             (view'.pagination_class = aggrid_pagination_class
                 => cfg.pagination_class = aggrid_pagination_class)]_vars


\* C27: initial puts the view on aggrid_pagination_class for exactly the
\* requests is_aggrid_request of the filter backend and of the pagination
\* class accept: format aggrid in any letter case, or one of filter, sort,
\* startRow, endRow present.
C27_SameActivation ==
    pc = "handling" =>
        /\ is_aggrid_request(request) = ForAgGrid(request)
        /\ is_aggrid_request_p(request) = ForAgGrid(request)
        /\ view.pagination_class =
              IF ForAgGrid(request) THEN aggrid_pagination_class
              ELSE IF cfg.standard_pagination_class # "None"
              THEN cfg.standard_pagination_class
              ELSE cfg.pagination_class


\* the filter is JSON but no object of objects, or the sort is JSON but no
\* list of objects
WrongShape(req) ==
    \/ /\ req.filter.text = "json"
       /\ \/ req.filter.val.t # "obj"
          \/ \E i \in 1..Len(req.filter.val.items) : req.filter.val.items[i].cond.t # "obj"
    \/ /\ req.sort.text = "json"
       /\ \/ req.sort.val.t # "list"
          \/ \E i \in 1..Len(req.sort.val.items) : req.sort.val.items[i].t # "obj"

\* C28: filter_queryset does not raise on a filter or sort parameter that
\* is valid JSON of the wrong shape, and stores the counts on the view.
C28_ShapesIgnored ==
    [][(pc = "filter" /\ WrongShape(request)) =>
          /\ pc' = "paginate"
          /\ view'._ag_grid_total_count.set
          /\ view'._ag_grid_filtered_count.set]_vars


\* the request with the direct parameters only
WithoutFormat(req) == [req EXCEPT !.format = NoParam]

\* what the pagination class answers to the request without its format, on
\* the filtered queryset and the view as the filter backend left them
DirectAnswer ==
    LET r == paginate_queryset(NewPaginator, queryset, WithoutFormat(request), view, cfg)
    IN  IF r.result.k # "list" THEN Raised
        ELSE get_paginated_response(r.paginator, r.result.rows)

\* C25: with integer startRow and endRow, the request with format=aggrid
\* is answered with the envelope the request with the direct parameters
\* only gets from the pagination class: the same rowCount, totalCount and
\* rows, the rows cut to the range once; and it fails where that one fails.
C25_ModesAgree ==
    (/\ request.format = Param(S_aggrid)
     /\ HasRange(request)
     /\ ~FailedInFilter) =>
        /\ pc = "done" =>
              /\ rendered = DirectAnswer
              /\ rendered.k = "envelope"
              /\ (StartRow(request) >= 0 /\ EndRow(request) >= 0) =>
                    rendered.rows = Positions(queryset, StartRow(request),
                                              Min(EndRow(request), Len(queryset)))
        /\ pc = "failed" => DirectAnswer = Raised

\* an ag-grid format request for rows 1..2 of three filtered rows
C25_Witness ==
    /\ pc = "done"
    /\ request.format = Param(S_aggrid)
    /\ HasRange(request)
    /\ StartRow(request) = 1
    /\ EndRow(request) = MaxRows
    /\ Len(queryset) >= 3
    /\ response.k = "list"
    /\ rendered = Envelope(Len(queryset), Len(db), Tail(queryset))


\* C30 as stated: every envelope render makes of a list or of a dict with
\* results has totalCount >= rowCount >= the number of rows it emits.
C30_CountsOrdered ==
    (pc = "done" /\ response.k \in {"list", "results"} /\ rendered.k = "envelope") =>
        /\ rendered.totalCount.v >= rendered.rowCount.v
        /\ rendered.rowCount.v >= Len(rendered.rows)

\* the counts render starts from: those of the dict when it has a count,
\* else those stored on the view, 0 when there is none
GivenFiltered ==
    IF response.k = "results" /\ response.count.set THEN response.count.v
    ELSE IF ViewInContext /\ view._ag_grid_filtered_count.set
    THEN view._ag_grid_filtered_count.v ELSE 0
GivenTotal ==
    IF response.k = "results" /\ response.count.set
    THEN (IF response.total_count.set THEN response.total_count.v ELSE response.count.v)
    ELSE IF ViewInContext /\ view._ag_grid_total_count.set
    THEN view._ag_grid_total_count.v ELSE 0

\* C30, amended: the envelope has totalCount >= rowCount >= the number of
\* rows emitted when the counts render starts from are total >= filtered >=
\* the number of rows of the data, whether or not render slices.
C30_OrderedFromOrdered ==
    (/\ pc = "done"
     /\ response.k \in {"list", "results"}
     /\ rendered.k = "envelope"
     /\ GivenTotal >= GivenFiltered
     /\ GivenFiltered >= Len(response.rows)) =>
        /\ rendered.totalCount.v >= rendered.rowCount.v
        /\ rendered.rowCount.v >= Len(rendered.rows)

\* a list on a view that stores a filtered count below its total count
C30_Witness ==
    /\ pc = "done"
    /\ response.k = "list"
    /\ Len(response.rows) = 1
    /\ cfg.context = "full"
    /\ view._ag_grid_filtered_count = Set(1)
    /\ view._ag_grid_total_count = Set(MaxRows + 2)
    /\ rendered = Envelope(1, MaxRows + 2, response.rows)

====
